---- MODULE Spec2Model ----
(***************************************************************************)
(* File discovery (findFiles, src/fileUtils.ts) and budgeted collection    *)
(* (PhasetMCPServer.findAndReadFiles / collectRepoFiles, src/index.ts).    *)
(*                                                                         *)
(* A JavaScript string is a sequence of one-character strings, so that     *)
(* indexing, substring search and UTF-16 code unit order can be computed.  *)
(* File content, which can be hundreds of thousands of characters long, is *)
(* a sequence of pieces [s, n]: the text s repeated n times.               *)
(***************************************************************************)
EXTENDS Integers, Sequences, FiniteSets, TLC

(***************************************************************************)
(* Bounds of the model.                                                    *)
(***************************************************************************)
MaxFiles == 3

(***************************************************************************)
(* Strings.                                                                *)
(***************************************************************************)
\* UTF-16 code unit of each character the model uses
CodeUnit ==
    ("\t" :> 9) @@ ("\n" :> 10) @@ ("\r" :> 13) @@ (" " :> 32) @@ ("!" :> 33) @@
    ("\"" :> 34) @@ ("#" :> 35) @@ ("$" :> 36) @@ ("%" :> 37) @@ ("&" :> 38) @@
    ("'" :> 39) @@ ("(" :> 40) @@ (")" :> 41) @@ ("*" :> 42) @@ ("+" :> 43) @@
    ("," :> 44) @@ ("-" :> 45) @@ ("." :> 46) @@ ("/" :> 47) @@ ("0" :> 48) @@
    ("1" :> 49) @@ ("2" :> 50) @@ ("3" :> 51) @@ ("4" :> 52) @@ ("5" :> 53) @@
    ("6" :> 54) @@ ("7" :> 55) @@ ("8" :> 56) @@ ("9" :> 57) @@ (":" :> 58) @@
    (";" :> 59) @@ ("<" :> 60) @@ ("=" :> 61) @@ (">" :> 62) @@ ("?" :> 63) @@
    ("@" :> 64) @@ ("A" :> 65) @@ ("B" :> 66) @@ ("C" :> 67) @@ ("D" :> 68) @@
    ("E" :> 69) @@ ("F" :> 70) @@ ("G" :> 71) @@ ("H" :> 72) @@ ("I" :> 73) @@
    ("J" :> 74) @@ ("K" :> 75) @@ ("L" :> 76) @@ ("M" :> 77) @@ ("N" :> 78) @@
    ("O" :> 79) @@ ("P" :> 80) @@ ("Q" :> 81) @@ ("R" :> 82) @@ ("S" :> 83) @@
    ("T" :> 84) @@ ("U" :> 85) @@ ("V" :> 86) @@ ("W" :> 87) @@ ("X" :> 88) @@
    ("Y" :> 89) @@ ("Z" :> 90) @@ ("[" :> 91) @@ ("\\" :> 92) @@ ("]" :> 93) @@
    ("^" :> 94) @@ ("_" :> 95) @@ ("a" :> 97) @@ ("b" :> 98) @@ ("c" :> 99) @@
    ("d" :> 100) @@ ("e" :> 101) @@ ("f" :> 102) @@ ("g" :> 103) @@
    ("h" :> 104) @@ ("i" :> 105) @@ ("j" :> 106) @@ ("k" :> 107) @@
    ("l" :> 108) @@ ("m" :> 109) @@ ("n" :> 110) @@ ("o" :> 111) @@
    ("p" :> 112) @@ ("q" :> 113) @@ ("r" :> 114) @@ ("s" :> 115) @@
    ("t" :> 116) @@ ("u" :> 117) @@ ("v" :> 118) @@ ("w" :> 119) @@
    ("x" :> 120) @@ ("y" :> 121) @@ ("z" :> 122) @@ ("{" :> 123) @@
    ("|" :> 124) @@ ("}" :> 125) @@ ("~" :> 126)

\* a < b in the order of String.prototype.localeCompare-free comparison
\* (code unit by code unit, a proper prefix first)
RECURSIVE StrLess(_, _)
StrLess(a, b) ==
    IF b = <<>> THEN FALSE
    ELSE IF a = <<>> THEN TRUE
    ELSE IF a[1] = b[1] THEN StrLess(Tail(a), Tail(b))
    ELSE CodeUnit[a[1]] < CodeUnit[b[1]]

\* String.prototype.startsWith
StartsWith(s, prefix) ==
    Len(prefix) <= Len(s) /\ SubSeq(s, 1, Len(prefix)) = prefix

\* String.prototype.includes
Includes(s, sub) ==
    \E i \in 1..(Len(s) - Len(sub) + 1) : SubSeq(s, i, i + Len(sub) - 1) = sub

\* String.prototype.replace with a global regular expression that matches
\* the literal text from: leftmost matches, left to right, not overlapping
RECURSIVE ReplaceAll(_, _, _)
ReplaceAll(s, from, to) ==
    IF Len(s) < Len(from) THEN s
    ELSE IF SubSeq(s, 1, Len(from)) = from
         THEN to \o ReplaceAll(SubSeq(s, Len(from) + 1, Len(s)), from, to)
         ELSE <<s[1]>> \o ReplaceAll(Tail(s), from, to)

UpperCase == <<"A","B","C","D","E","F","G","H","I","J","K","L","M",
               "N","O","P","Q","R","S","T","U","V","W","X","Y","Z">>
LowerCase == <<"a","b","c","d","e","f","g","h","i","j","k","l","m",
               "n","o","p","q","r","s","t","u","v","w","x","y","z">>

\* String.prototype.toLowerCase
ToLowerCase(s) ==
    [i \in 1..Len(s) |->
        IF \E k \in 1..Len(UpperCase) : UpperCase[k] = s[i]
        THEN LowerCase[CHOOSE k \in 1..Len(UpperCase) : UpperCase[k] = s[i]]
        ELSE s[i]]

\* index of the last "/" of s, 0 when there is none
LastSlash(s) ==
    IF \E i \in 1..Len(s) : s[i] = "/"
    THEN CHOOSE i \in 1..Len(s) :
            s[i] = "/" /\ \A k \in (i + 1)..Len(s) : s[k] # "/"
    ELSE 0

\* path.basename and path.dirname of a relative file path
Basename(p) == SubSeq(p, LastSlash(p) + 1, Len(p))
Dirname(p) == IF LastSlash(p) = 0 THEN <<".">> ELSE SubSeq(p, 1, LastSlash(p) - 1)

\* path.relative(baseDir, path.join(dir, name)), dir given relative to baseDir
\* (the empty string for baseDir itself)
JoinRelative(dir, name) == IF dir = <<>> THEN name ELSE dir \o <<"/">> \o name

(***************************************************************************)
(* matchPattern: the glob is rewritten into the source of a regular        *)
(* expression by a chain of replacements, and the expression is tested     *)
(* against the whole path.                                                 *)
(***************************************************************************)
RegexSpecials == {".", "+", "?", "^", "$", "{", "}", "(", ")", "|", "[", "]", "\\"}

DOUBLESTAR_SLASH ==
    <<"_","_","_","D","O","U","B","L","E","S","T","A","R","_","S","L","A","S","H","_","_","_">>
SLASH_DOUBLESTAR ==
    <<"_","_","_","S","L","A","S","H","_","D","O","U","B","L","E","S","T","A","R","_","_","_">>
DOUBLESTAR ==
    <<"_","_","_","D","O","U","B","L","E","S","T","A","R","_","_","_">>

\* .replace(/[.+?^${}()|[\]\\]/g, ...): a backslash before each special character
RECURSIVE EscapeRegex(_)
EscapeRegex(s) ==
    IF s = <<>> THEN <<>>
    ELSE (IF s[1] \in RegexSpecials THEN <<"\\", s[1]>> ELSE <<s[1]>>)
         \o EscapeRegex(Tail(s))

\* faulty variant: a single * is rewritten to .* and crosses "/"
RegexSourceStarAny(pattern) ==
    LET s1 == EscapeRegex(pattern)
        s2 == ReplaceAll(s1, <<"*","*","/">>, DOUBLESTAR_SLASH)
        s3 == ReplaceAll(s2, <<"/","*","*">>, SLASH_DOUBLESTAR)
        s4 == ReplaceAll(s3, <<"*","*">>, DOUBLESTAR)
        s5 == ReplaceAll(s4, <<"*">>, <<".","*">>)
        s6 == ReplaceAll(s5, DOUBLESTAR_SLASH, <<"(","?",":",".","*","/",")","?">>)
        s7 == ReplaceAll(s6, SLASH_DOUBLESTAR, <<"/",".","*">>)
    IN  ReplaceAll(s7, DOUBLESTAR, <<".","*">>)

\* the source of the regular expression, between ^ and $
RegexSource(pattern) ==
    LET s1 == EscapeRegex(pattern)
        s2 == ReplaceAll(s1, <<"*","*","/">>, DOUBLESTAR_SLASH)
        s3 == ReplaceAll(s2, <<"/","*","*">>, SLASH_DOUBLESTAR)
        s4 == ReplaceAll(s3, <<"*","*">>, DOUBLESTAR)
        s5 == ReplaceAll(s4, <<"*">>, <<"[","^","/","]","*">>)
        s6 == ReplaceAll(s5, DOUBLESTAR_SLASH, <<"(","?",":",".","*","/",")","?">>)
        s7 == ReplaceAll(s6, SLASH_DOUBLESTAR, <<"/",".","*">>)
    IN  ReplaceAll(s7, DOUBLESTAR, <<".","*">>)

\* new RegExp(source): the source as a sequence of terms. Every special
\* character of the glob was escaped, so the unescaped ones are those the
\* replacements wrote: [^/]*  (?:.*/)?  .*  ; a term of one character
\* matches that character.
RECURSIVE RegExp(_)
RegExp(src) ==
    IF src = <<>> THEN <<>>
    ELSE IF src[1] = "\\" /\ Len(src) >= 2
         THEN <<src[2]>> \o RegExp(SubSeq(src, 3, Len(src)))
    ELSE IF StartsWith(src, <<"[","^","/","]","*">>)
         THEN <<"[^/]*">> \o RegExp(SubSeq(src, 6, Len(src)))
    ELSE IF StartsWith(src, <<"(","?",":",".","*","/",")","?">>)
         THEN <<"(?:.*/)?">> \o RegExp(SubSeq(src, 9, Len(src)))
    ELSE IF StartsWith(src, <<".","*">>)
         THEN <<".*">> \o RegExp(SubSeq(src, 3, Len(src)))
    ELSE <<src[1]>> \o RegExp(Tail(src))

\* the characters the regular expression's . does not match
LineTerminators == {"\n", "\r"}

\* terms i.. of re match s from position j to its end
RECURSIVE MatchFrom(_, _, _, _)
MatchFrom(re, i, s, j) ==
    IF i > Len(re) THEN j = Len(s) + 1
    ELSE CASE re[i] = "[^/]*" ->
                \E k \in j..(Len(s) + 1) :
                    /\ \A m \in j..(k - 1) : s[m] # "/"
                    /\ MatchFrom(re, i + 1, s, k)
           [] re[i] = ".*" ->
                \E k \in j..(Len(s) + 1) :
                    /\ \A m \in j..(k - 1) : s[m] \notin LineTerminators
                    /\ MatchFrom(re, i + 1, s, k)
           [] re[i] = "(?:.*/)?" ->
                \/ MatchFrom(re, i + 1, s, j)
                \/ \E k \in j..Len(s) :
                    /\ s[k] = "/"
                    /\ \A m \in j..(k - 1) : s[m] \notin LineTerminators
                    /\ MatchFrom(re, i + 1, s, k + 1)
           [] OTHER ->
                j <= Len(s) /\ s[j] = re[i] /\ MatchFrom(re, i + 1, s, j + 1)

\* regex.test(filePath) for the anchored expression ^source$
RegexTest(re, filePath) == MatchFrom(re, 1, filePath, 1)

(***************************************************************************)
(* Depth profiles and priorities (src/index.ts).                           *)
(***************************************************************************)
minimalPatterns ==
    <<<<"p","a","c","k","a","g","e",".","j","s","o","n">>,  \* package.json
      <<"p","a","c","k","a","g","e","-","l","o","c","k",".","j","s","o","n">>,  \* package-lock.json
      <<"g","o",".","m","o","d">>,  \* go.mod
      <<"g","o",".","s","u","m">>,  \* go.sum
      <<"p","o","m",".","x","m","l">>,  \* pom.xml
      <<"b","u","i","l","d",".","g","r","a","d","l","e">>,  \* build.gradle
      <<"b","u","i","l","d",".","g","r","a","d","l","e",".","k","t","s">>,  \* build.gradle.kts
      <<"r","e","q","u","i","r","e","m","e","n","t","s",".","t","x","t">>,  \* requirements.txt
      <<"s","e","t","u","p",".","p","y">>,  \* setup.py
      <<"p","y","p","r","o","j","e","c","t",".","t","o","m","l">>,  \* pyproject.toml
      <<"C","a","r","g","o",".","t","o","m","l">>,  \* Cargo.toml
      <<"C","a","r","g","o",".","l","o","c","k">>,  \* Cargo.lock
      <<"G","e","m","f","i","l","e">>,  \* Gemfile
      <<"G","e","m","f","i","l","e",".","l","o","c","k">>,  \* Gemfile.lock
      <<"c","o","m","p","o","s","e","r",".","j","s","o","n">>,  \* composer.json
      <<"R","E","A","D","M","E",".","m","d">>,  \* README.md
      <<"R","E","A","D","M","E",".","t","x","t">>,  \* README.txt
      <<"R","E","A","D","M","E">>,  \* README
      <<"r","e","a","d","m","e",".","m","d">>,  \* readme.md
      <<"L","I","C","E","N","S","E">>,  \* LICENSE
      <<"L","I","C","E","N","S","E",".","t","x","t">>,  \* LICENSE.txt
      <<"L","I","C","E","N","S","E",".","m","d">>  \* LICENSE.md
    >>

standardAdded ==
    <<<<"D","o","c","k","e","r","f","i","l","e">>,  \* Dockerfile
      <<"D","o","c","k","e","r","f","i","l","e",".","*">>,  \* Dockerfile.*
      <<"d","o","c","k","e","r","-","c","o","m","p","o","s","e",".","y","m","l">>,  \* docker-compose.yml
      <<"d","o","c","k","e","r","-","c","o","m","p","o","s","e",".","y","a","m","l">>,  \* docker-compose.yaml
      <<".","d","o","c","k","e","r","i","g","n","o","r","e">>,  \* .dockerignore
      <<".","g","i","t","h","u","b","/","w","o","r","k","f","l","o","w","s","/","*",".","y","m","l">>,  \* .github/workflows/*.yml
      <<".","g","i","t","h","u","b","/","w","o","r","k","f","l","o","w","s","/","*",".","y","a","m","l">>,  \* .github/workflows/*.yaml
      <<".","g","i","t","l","a","b","-","c","i",".","y","m","l">>,  \* .gitlab-ci.yml
      <<"a","z","u","r","e","-","p","i","p","e","l","i","n","e","s",".","y","m","l">>,  \* azure-pipelines.yml
      <<"J","e","n","k","i","n","s","f","i","l","e">>,  \* Jenkinsfile
      <<"o","p","e","n","a","p","i",".","y","a","m","l">>,  \* openapi.yaml
      <<"o","p","e","n","a","p","i",".","y","m","l">>,  \* openapi.yml
      <<"o","p","e","n","a","p","i",".","j","s","o","n">>,  \* openapi.json
      <<"s","w","a","g","g","e","r",".","j","s","o","n">>,  \* swagger.json
      <<"s","w","a","g","g","e","r",".","y","a","m","l">>,  \* swagger.yaml
      <<"s","w","a","g","g","e","r",".","y","m","l">>,  \* swagger.yml
      <<"a","p","i","-","s","p","e","c",".","y","a","m","l">>,  \* api-spec.yaml
      <<"a","p","i","-","s","p","e","c",".","y","m","l">>,  \* api-spec.yml
      <<"s","c","h","e","m","a",".","g","r","a","p","h","q","l">>,  \* schema.graphql
      <<"*",".","g","r","a","p","h","q","l">>,  \* *.graphql
      <<"C","O","D","E","O","W","N","E","R","S">>,  \* CODEOWNERS
      <<".","e","n","v",".","e","x","a","m","p","l","e">>,  \* .env.example
      <<".","e","n","v",".","s","a","m","p","l","e">>,  \* .env.sample
      <<"M","a","k","e","f","i","l","e">>,  \* Makefile
      <<"j","u","s","t","f","i","l","e">>  \* justfile
    >>

deepAdded ==
    <<<<"t","e","r","r","a","f","o","r","m","/","*","*","/","*",".","t","f">>,  \* terraform/**/*.tf
      <<"t","e","r","r","a","f","o","r","m","/","*",".","t","f">>,  \* terraform/*.tf
      <<"k","8","s","/","*","*","/","*",".","y","a","m","l">>,  \* k8s/**/*.yaml
      <<"k","8","s","/","*","*","/","*",".","y","m","l">>,  \* k8s/**/*.yml
      <<"k","u","b","e","r","n","e","t","e","s","/","*","*","/","*",".","y","a","m","l">>,  \* kubernetes/**/*.yaml
      <<"k","u","b","e","r","n","e","t","e","s","/","*","*","/","*",".","y","m","l">>,  \* kubernetes/**/*.yml
      <<".","k","8","s","/","*","*","/","*",".","y","a","m","l">>,  \* .k8s/**/*.yaml
      <<"h","e","l","m","/","*","*","/","*",".","y","a","m","l">>,  \* helm/**/*.yaml
      <<"c","o","n","f","i","g","/","*",".","j","s","o","n">>,  \* config/*.json
      <<"c","o","n","f","i","g","/","*",".","y","a","m","l">>,  \* config/*.yaml
      <<"c","o","n","f","i","g","/","*",".","y","m","l">>,  \* config/*.yml
      <<".","c","i","r","c","l","e","c","i","/","c","o","n","f","i","g",".","y","m","l">>,  \* .circleci/config.yml
      <<"b","i","t","b","u","c","k","e","t","-","p","i","p","e","l","i","n","e","s",".","y","m","l">>,  \* bitbucket-pipelines.yml
      <<"c","l","o","u","d","b","u","i","l","d",".","y","a","m","l">>,  \* cloudbuild.yaml
      <<"s","k","a","f","f","o","l","d",".","y","a","m","l">>,  \* skaffold.yaml
      <<"s","e","r","v","e","r","l","e","s","s",".","y","m","l">>,  \* serverless.yml
      <<"s","e","r","v","e","r","l","e","s","s",".","y","a","m","l">>  \* serverless.yaml
    >>

\* faulty variant: the standard list does not spread the minimal list
standardPatternsAlone == standardAdded

\* [...minimal, ...], [...standard, ...]
standardPatterns == minimalPatterns \o standardAdded
deepPatterns == standardPatterns \o deepAdded

\* names every object inherits from Object.prototype: patterns[depth] finds
\* a function or an object there, which is truthy and is no array
ObjectPrototypeKeys ==
    {"constructor", "toString", "toLocaleString", "valueOf", "hasOwnProperty",
     "isPrototypeOf", "propertyIsEnumerable", "__proto__"}

\* patterns[depth] || standard : isArray tells a list of patterns from an
\* inherited property
getFilePatterns(depth) ==
    IF depth = "minimal" THEN [isArray |-> TRUE, items |-> minimalPatterns]
    ELSE IF depth = "standard" THEN [isArray |-> TRUE, items |-> standardPatterns]
    ELSE IF depth = "deep" THEN [isArray |-> TRUE, items |-> deepPatterns]
    ELSE IF depth \in ObjectPrototypeKeys THEN [isArray |-> FALSE, items |-> <<>>]
    ELSE [isArray |-> TRUE, items |-> standardPatterns]

collectIgnore ==
    <<<<"n","o","d","e","_","m","o","d","u","l","e","s","/","*","*">>,  \* node_modules/**
      <<".","g","i","t","/","*","*">>,  \* .git/**
      <<"d","i","s","t","/","*","*">>,  \* dist/**
      <<"b","u","i","l","d","/","*","*">>,  \* build/**
      <<"t","a","r","g","e","t","/","*","*">>,  \* target/**
      <<".","n","e","x","t","/","*","*">>,  \* .next/**
      <<"o","u","t","/","*","*">>,  \* out/**
      <<"v","e","n","d","o","r","/","*","*">>,  \* vendor/**
      <<".","v","e","n","v","/","*","*">>,  \* .venv/**
      <<"v","e","n","v","/","*","*">>,  \* venv/**
      <<"_","_","p","y","c","a","c","h","e","_","_","/","*","*">>,  \* __pycache__/**
      <<"*",".","p","y","c">>,  \* *.pyc
      <<".","i","d","e","a","/","*","*">>,  \* .idea/**
      <<".","v","s","c","o","d","e","/","*","*">>,  \* .vscode/**
      <<"c","o","v","e","r","a","g","e","/","*","*">>,  \* coverage/**
      <<".","c","o","v","e","r","a","g","e","/","*","*">>  \* .coverage/**
    >>

\* maxDepth = 10 when the options give none
DefaultMaxDepth == 10

\* calls of findFiles: patterns, options.ignore, options.maxDepth
FindCalls ==
    { [patterns |-> << <<"*","*","/","*",".","j","s">> >>,
       ignore |-> << <<"n","o","d","e","_","m","o","d","u","l","e","s","/","*","*">> >>,
       maxDepth |-> DefaultMaxDepth],
      [patterns |-> << <<"p","a","c","k","a","g","e",".","j","s","o","n">>,
                       <<"*",".","j","s","o","n">>,
                       <<"p","a","c","k","a","g","e",".","j","s","o","n">>,
                       <<"*",".","m","d">> >>,
       ignore |-> << >>,
       maxDepth |-> DefaultMaxDepth],
      [patterns |-> << <<"*","*","/","*">> >>,
       ignore |-> << <<"*","*","/","*",".","j","s","o","n">>,
                     <<"d","i","s","t","/","*","*">> >>,
       maxDepth |-> DefaultMaxDepth],
      [patterns |-> << <<"*","*","/","*",".","t","s">> >>,
       ignore |-> << >>,
       maxDepth |-> 0],
      [patterns |-> << <<"*","*","/","*",".","t","s">>, <<"*","*","/","*",".","j","s">> >>,
       ignore |-> << <<"d","i","s","t">> >>,
       maxDepth |-> 1],
      [patterns |-> << <<"*","*","/","*">> >>,
       ignore |-> << >>,
       maxDepth |-> 0] }

\* patterns matchPattern is called with on its own:
\* globs with one *, with **, and without wildcard
MatchPatterns ==
    { <<"s","r","c","/","*",".","t","s">>,
      <<"*",".","t","s">>,
      <<"*">>,
      <<"s","r","c","/","*">>,
      <<"*","*","/","*",".","t","s">>,
      <<"s","r","c","/","*","*","/","*",".","t","s">>,
      <<"s","r","c","/","*","*">>,
      <<"*","*">>,
      <<"R","E","A","D","M","E",".","m","d">>,
      <<"a","+","b",".","t","x","t">>,
      <<"f","i","l","e","(","1",")",".","t","x","t">>,
      <<"$","x">>,
      <<"s","r","c","/","i","n","d","e","x",".","t","s">>,
      <<"M","Y","_","F","I","L","E",".","m","d">>,
      <<"_","_","_","D","O","U","B","L","E","S","T","A","R","_","_","_">> }

(***************************************************************************)
(* matchPattern and its callers (src/fileUtils.ts).                        *)
(***************************************************************************)
\* the regular expression of every pattern that occurs in the model, computed
\* once; matchPattern builds the same expression on each call
PatternsInUse ==
    {deepPatterns[i] : i \in 1..Len(deepPatterns)}
    \cup {collectIgnore[i] : i \in 1..Len(collectIgnore)}
    \cup UNION {{c.patterns[i] : i \in 1..Len(c.patterns)} : c \in FindCalls}
    \cup UNION {{c.ignore[i] : i \in 1..Len(c.ignore)} : c \in FindCalls}
    \cup MatchPatterns

RegExpOf == [p \in PatternsInUse |-> RegExp(RegexSource(p))]

matchPattern(filePath, pattern) ==
    RegexTest(IF pattern \in PatternsInUse THEN RegExpOf[pattern]
              ELSE RegExp(RegexSource(pattern)),
              filePath)

\* pattern.replace(/\\/g, '/')
normalizePattern(pattern) == ReplaceAll(pattern, <<"\\">>, <<"/">>)

\* faulty variant: only the first ignore pattern is tried
shouldIgnoreFirstOnly(filePath, ignorePatterns) ==
    LET normalizedPath == ReplaceAll(filePath, <<"\\">>, <<"/">>)
    IN  ignorePatterns # <<>> /\ matchPattern(normalizedPath, ignorePatterns[1])

shouldIgnore(filePath, ignorePatterns) ==
    LET normalizedPath == ReplaceAll(filePath, <<"\\">>, <<"/">>)
    IN  \E i \in 1..Len(ignorePatterns) : matchPattern(normalizedPath, ignorePatterns[i])

\* faulty variant: only the first pattern is tried
matchesAnyPatternFirstOnly(filePath, patterns) ==
    patterns # <<>> /\ matchPattern(filePath, patterns[1])

matchesAnyPattern(filePath, patterns) ==
    LET normalizedPath == ReplaceAll(filePath, <<"\\">>, <<"/">>)
    IN  \E i \in 1..Len(patterns) : matchPattern(normalizedPath, patterns[i])

OtherManifests ==
    { <<"g","o",".","m","o","d">>,
      <<"p","o","m",".","x","m","l">>,
      <<"b","u","i","l","d",".","g","r","a","d","l","e">>,
      <<"C","a","r","g","o",".","t","o","m","l">>,
      <<"p","y","p","r","o","j","e","c","t",".","t","o","m","l">>,
      <<"s","e","t","u","p",".","p","y">>,
      <<"r","e","q","u","i","r","e","m","e","n","t","s",".","t","x","t">>,
      <<"G","e","m","f","i","l","e">>,
      <<"c","o","m","p","o","s","e","r",".","j","s","o","n">> }

\* lower number = higher priority
getFilePriority(filePath) ==
    LET fileName == Basename(filePath)
        dirName == Dirname(filePath)
    IN  IF fileName = <<"p","a","c","k","a","g","e",".","j","s","o","n">> THEN 1
        ELSE IF StartsWith(ToLowerCase(fileName), <<"r","e","a","d","m","e">>) THEN 2
        ELSE IF fileName \in OtherManifests THEN 3
        ELSE IF \/ StartsWith(fileName, <<"o","p","e","n","a","p","i",".">>)
                \/ StartsWith(fileName, <<"s","w","a","g","g","e","r",".">>)
                \/ Includes(fileName, <<"a","p","i","-","s","p","e","c">>) THEN 4
        ELSE IF \/ fileName = <<"D","o","c","k","e","r","f","i","l","e">>
                \/ fileName = <<"d","o","c","k","e","r","-","c","o","m","p","o","s","e",".","y","m","l">>
                \/ fileName = <<"d","o","c","k","e","r","-","c","o","m","p","o","s","e",".","y","a","m","l">>
             THEN 5
        ELSE IF \/ Includes(dirName, <<".","g","i","t","h","u","b","/","w","o","r","k","f","l","o","w","s">>)
                \/ fileName = <<".","g","i","t","l","a","b","-","c","i",".","y","m","l">>
                \/ fileName = <<"J","e","n","k","i","n","s","f","i","l","e">> THEN 6
        ELSE IF \/ Includes(filePath, <<"t","e","r","r","a","f","o","r","m","/">>)
                \/ Includes(filePath, <<"k","8","s","/">>)
                \/ Includes(filePath, <<"k","u","b","e","r","n","e","t","e","s","/">>) THEN 8
        ELSE 7

(***************************************************************************)
(* File content: a sequence of pieces [s |-> text, n |-> repetitions].     *)
(* What is read from disk is made of runs of one character; the character  *)
(* U+0000, which a TLA+ string cannot hold, is written NUL.                *)
(***************************************************************************)
NUL == "NUL"

CharLen(s) == IF s = NUL THEN 1 ELSE Len(s)

\* content.length
RECURSIVE Length(_)
Length(content) ==
    IF content = <<>> THEN 0
    ELSE CharLen(content[1].s) * content[1].n + Length(Tail(content))

\* faulty variant: no content is taken for binary
IncludesNulNever(content) == FALSE

\* content.includes('\0')
IncludesNul(content) ==
    \E i \in 1..Len(content) : content[i].s = NUL /\ content[i].n > 0

\* content.substring(0, end) of content made of runs of one character
RECURSIVE Substring0(_, _)
Substring0(content, end) ==
    IF content = <<>> \/ end <= 0 THEN <<>>
    ELSE IF content[1].n <= end
         THEN <<content[1]>> \o Substring0(Tail(content), end - content[1].n)
         ELSE <<[s |-> content[1].s, n |-> end]>>

\* faulty variant: one token for each character
estimateTokensPerChar(text) == Length(text)

\* Math.ceil(text.length / 4)
estimateTokens(text) == (Length(text) + 3) \div 4

TruncationNotice(maxChars) ==
    [s |-> "\n\n... [Content truncated - file too large. Showing first "
            \o ToString(maxChars) \o " characters]",
     n |-> 1]

\* faulty variant: the kept prefix is one character short
truncateContentShort(content, maxChars) ==
    IF Length(content) <= maxChars THEN content
    ELSE Substring0(content, maxChars - 1) \o <<TruncationNotice(maxChars)>>

truncateContent(content, maxChars) ==
    IF Length(content) <= maxChars THEN content
    ELSE Substring0(content, maxChars) \o <<TruncationNotice(maxChars)>>

MAX_FILE_SIZE == 50000
MAX_TOTAL_TOKENS == 15000

\* Set.prototype.add on a Set kept in insertion order
SetAdd(set, x) ==
    IF \E i \in 1..Len(set) : set[i] = x THEN set ELSE Append(set, x)

\* Array.prototype.sort() without comparator: ascending code unit order
InsertString(sorted, x) ==
    LET k == Cardinality({i \in 1..Len(sorted) : ~StrLess(x, sorted[i])})
    IN  SubSeq(sorted, 1, k) \o <<x>> \o SubSeq(sorted, k + 1, Len(sorted))

RECURSIVE SortStrings(_)
SortStrings(seq) ==
    IF seq = <<>> THEN <<>>
    ELSE InsertString(SortStrings(SubSeq(seq, 1, Len(seq) - 1)), seq[Len(seq)])

\* faulty variant: a sort that is not stable, an element goes before those of the
\* same priority that precede it
InsertByPriorityUnstable(sorted, x) ==
    LET k == Cardinality({i \in 1..Len(sorted) : sorted[i].priority < x.priority})
    IN  SubSeq(sorted, 1, k) \o <<x>> \o SubSeq(sorted, k + 1, Len(sorted))

\* allFiles.sort((a, b) => a.priority - b.priority): the sort is stable,
\* an element goes behind those of the same priority that precede it
InsertByPriority(sorted, x) ==
    LET k == Cardinality({i \in 1..Len(sorted) : sorted[i].priority <= x.priority})
    IN  SubSeq(sorted, 1, k) \o <<x>> \o SubSeq(sorted, k + 1, Len(sorted))

RECURSIVE SortByPriority(_)
SortByPriority(seq) ==
    IF seq = <<>> THEN <<>>
    ELSE InsertByPriority(SortByPriority(SubSeq(seq, 1, Len(seq) - 1)), seq[Len(seq)])

(***************************************************************************)
(* The directory trees and calls the model explores.                       *)
(***************************************************************************)
\* files a repository handed to collect_repo_files may hold
RepoFiles ==
    { <<"p","a","c","k","a","g","e",".","j","s","o","n">>,
      <<"R","E","A","D","M","E",".","m","d">>,
      <<"r","e","a","d","m","e",".","m","d">>,
      <<"s","c","h","e","m","a",".","g","r","a","p","h","q","l">>,
      <<"t","e","r","r","a","f","o","r","m","/","m","a","i","n",".","t","f">> }

\* files of the repository of tests/index.test.ts, and one in a directory
ManifestFiles ==
    { <<"p","a","c","k","a","g","e",".","j","s","o","n">>,
      <<"R","E","A","D","M","E",".","m","d">>,
      <<"t","e","r","r","a","f","o","r","m","/","m","a","i","n",".","t","f">> }

\* files of the tree of tests/fileUtils.test.ts
FixtureFiles ==
    { <<"p","a","c","k","a","g","e",".","j","s","o","n">>,
      <<"R","E","A","D","M","E",".","m","d">>,
      <<"s","r","c","/","i","n","d","e","x",".","t","s">>,
      <<"s","r","c","/","u","t","i","l","s","/","h","e","l","p","e","r",".","t","s">>,
      <<"d","i","s","t","/","i","n","d","e","x",".","j","s">>,
      <<"n","o","d","e","_","m","o","d","u","l","e","s","/","l","i","b",".","j","s">> }

\* the depth argument of collect_repo_files: the three profiles, a name that
\* is no profile, and a name every object inherits
Depths == {"minimal", "standard", "deep", "full", "constructor"}

\* what fs.readFile(fullPath, 'utf-8') can give for one file
Text(c, n) == <<[s |-> c, n |-> n]>>

ReadOutcomes ==
    { [ok |-> FALSE, content |-> <<>>],                      \* the read fails
      [ok |-> TRUE, content |-> <<>>],                       \* an empty file
      [ok |-> TRUE, content |-> Text("x", 30000)],
      [ok |-> TRUE, content |-> Text("x", MAX_FILE_SIZE)],
      [ok |-> TRUE, content |-> Text("a", MAX_FILE_SIZE - 1) \o Text("b", 2)],
      [ok |-> TRUE, content |-> Text("x", 3) \o Text(NUL, 1) \o Text("y", 2)] }

(***************************************************************************)
(* The paths and patterns matchPattern is tried on.                        *)
(***************************************************************************)
\* longest path tried, in segments
MaxSegments == 3

\* names of files and directories; one holds a line feed
MatchSegments ==
    { <<"s","r","c">>,
      <<"l","i","b">>,
      <<"i","n","d","e","x",".","t","s">>,
      <<"a",".","t","s">>,
      <<".","t","s">>,
      <<"x",".","j","s">>,
      <<"a","\n","b">> }

\* the segments joined by "/"
RECURSIVE JoinSegments(_)
JoinSegments(segs) ==
    IF Len(segs) = 1 THEN segs[1]
    ELSE segs[1] \o <<"/">> \o JoinSegments(Tail(segs))

\* paths that are, or come close to, a pattern without wildcard
LiteralPaths ==
    { <<"R","E","A","D","M","E",".","m","d">>,
      <<"r","e","a","d","m","e",".","m","d">>,
      <<"R","E","A","D","M","E","X","m","d">>,
      <<"a","+","b",".","t","x","t">>,
      <<"a","a","b",".","t","x","t">>,
      <<"a","b",".","t","x","t">>,
      <<"f","i","l","e","(","1",")",".","t","x","t">>,
      <<"f","i","l","e","1",".","t","x","t">>,
      <<"$","x">>,
      <<"x">>,
      <<"M","Y","_","F","I","L","E",".","m","d">>,
      <<"m","y","_","f","i","l","e",".","m","d">>,
      <<"_","_","_","D","O","U","B","L","E","S","T","A","R","_","_","_">>,
      <<"s","r","c","/","I","n","d","e","x",".","t","s">> }

MatchPaths ==
    {JoinSegments(segs) : segs \in UNION {[1..n -> MatchSegments] : n \in 1..MaxSegments}}
    \cup LiteralPaths


(***************************************************************************)
(* State.                                                                  *)
(***************************************************************************)
VARIABLES
    tool,               \* what is called: "collect_repo_files", "suggest_manifest",
                        \* "findFiles"
    rootKind,           \* what is at the root path: "dir", "file", "missing"
    fsFiles,            \* the regular files of the tree, as relative paths
    fsDirs,             \* its directories below the root, as relative paths
    unreadable,         \* the directories fs.readdir fails on (<<>>: the root)
    depth,              \* collectRepoFiles: args.depth
    patterns,           \* findFiles: patterns, as getFilePatterns returns it
    ignore,             \* findFiles: options.ignore
    maxDepth,           \* findFiles: options.maxDepth
    normalizedPatterns, \* findFiles
    normalizedIgnore,   \* findFiles
    stack,              \* findFiles: the pending calls of walk, innermost last
    findResults,        \* findFiles: the Set results, in insertion order
    enumerated,         \* findFiles: the directories walk passed to fs.readdir
    matches,            \* findAndReadFiles: what findFiles returned
    returned,           \* what each finished call of findFiles returned
    allFiles,           \* findAndReadFiles
    idx,                \* findAndReadFiles: position of the read loop in allFiles
    results,            \* findAndReadFiles
    totalTokens,        \* findAndReadFiles
    disk,               \* what fs.readFile gave for each path read so far
    diagnostics,        \* the console.error lines
    response,           \* what the tool call answered
    pc,
    answers,            \* the requests answered before this one, oldest first
    suspended           \* the locals of a second request in flight, waiting on
                        \* an await while this one runs

vars == <<tool, rootKind, fsFiles, fsDirs, unreadable, depth, patterns, ignore,
          maxDepth, normalizedPatterns, normalizedIgnore, stack, findResults,
          enumerated, matches, returned, allFiles, idx, results, totalTokens, disk,
          diagnostics, response, pc, answers, suspended>>

\* what no step of a request changes: the file system, the arguments of the
\* tool call, the other requests
fsVars == <<tool, rootKind, fsFiles, fsDirs, unreadable, depth, answers, suspended>>
findArgs == <<patterns, ignore, maxDepth>>
findVars == <<normalizedPatterns, normalizedIgnore, stack, findResults, enumerated>>
readVars == <<allFiles, idx, results, totalTokens, disk>>

\* no second request is in flight
NoRequest == [pc |-> "none"]

ParentOf(p) == IF LastSlash(p) = 0 THEN <<>> ELSE SubSeq(p, 1, LastSlash(p) - 1)

Ancestors(p) == {SubSeq(p, 1, i - 1) : i \in {k \in 1..Len(p) : p[k] = "/"}}

\* fs.readdir(dir, { withFileTypes: true }), as a set: the loop takes the
\* entries in the order the file system lists them, which is any order
Readdir(dir) ==
    {[name |-> Basename(p), kind |-> "file"] : p \in {f \in fsFiles : ParentOf(f) = dir}}
    \cup
    {[name |-> Basename(p), kind |-> "dir"] : p \in {d \in fsDirs : ParentOf(d) = dir}}

\* fs.readdir(dir) does not throw
CanReaddir(dir) ==
    /\ dir \notin unreadable
    /\ IF dir = <<>> THEN rootKind = "dir" ELSE dir \in fsDirs

InitTree(universe) ==
    \E F \in SUBSET universe :
        /\ Cardinality(F) <= MaxFiles
        /\ fsFiles = F
        /\ fsDirs = UNION {Ancestors(f) : f \in F}
        /\ \E u \in SUBSET (UNION {Ancestors(f) : f \in F} \cup {<<>>}) :
            /\ Cardinality(u) <= 1
            /\ unreadable = u

InitRest ==
    /\ normalizedPatterns = <<>>
    /\ normalizedIgnore = <<>>
    /\ stack = <<>>
    /\ findResults = <<>>
    /\ enumerated = {}
    /\ matches = <<>>
    /\ returned = <<>>
    /\ allFiles = <<>>
    /\ idx = 1
    /\ results = <<>>
    /\ totalTokens = 0
    /\ disk = <<>>
    /\ diagnostics = <<>>
    /\ response = [kind |-> "none"]
    /\ answers = <<>>
    /\ suspended = NoRequest

\* a call of the tool collect_repo_files
Init ==
    /\ tool = "collect_repo_files"
    /\ rootKind \in {"dir", "file", "missing"}
    /\ InitTree(RepoFiles)
    /\ rootKind # "dir" => fsFiles = {} /\ unreadable = {}
    /\ depth \in Depths
    /\ patterns = [isArray |-> TRUE, items |-> <<>>]
    /\ ignore = <<>>
    /\ maxDepth = DefaultMaxDepth
    /\ InitRest
    /\ pc = "stat"

\* calls of findFiles on a tree
InitFind ==
    /\ tool = "findFiles"
    /\ rootKind \in {"dir", "missing"}
    /\ InitTree(FixtureFiles)
    /\ rootKind # "dir" => fsFiles = {} /\ unreadable = {}
    /\ depth = "standard"
    /\ \E call \in FindCalls :
        /\ patterns = [isArray |-> TRUE, items |-> call.patterns]
        /\ ignore = call.ignore
        /\ maxDepth = call.maxDepth
    /\ InitRest
    /\ pc = "findFiles"

\* a call of collect_repo_files or of suggest_manifest
InitTools ==
    /\ tool \in {"collect_repo_files", "suggest_manifest"}
    /\ rootKind \in {"dir", "file", "missing"}
    /\ InitTree(ManifestFiles)
    /\ rootKind # "dir" => fsFiles = {} /\ unreadable = {}
    /\ depth \in Depths
    /\ patterns = [isArray |-> TRUE, items |-> <<>>]
    /\ ignore = <<>>
    /\ maxDepth = DefaultMaxDepth
    /\ InitRest
    /\ pc = "stat"

\* a call matchPattern(filePath, pattern): filePath is the one path of
\* fsFiles, pattern the one item of patterns
InitMatch ==
    /\ tool = "matchPattern"
    /\ rootKind = "dir"
    /\ \E filePath \in MatchPaths : fsFiles = {filePath}
    /\ fsDirs = {}
    /\ unreadable = {}
    /\ depth = "standard"
    /\ \E pattern \in MatchPatterns : patterns = [isArray |-> TRUE, items |-> <<pattern>>]
    /\ ignore = <<>>
    /\ maxDepth = DefaultMaxDepth
    /\ InitRest
    /\ pc = "matchPattern"

(***************************************************************************)
(* collectRepoFiles, up to the call of findAndReadFiles.                   *)
(***************************************************************************)
\* faulty variant: stats.isDirectory() is not looked at
CollectStatAnyKind ==
    /\ tool = "collect_repo_files" /\ pc = "stat"
    /\ IF rootKind # "missing"
       THEN /\ patterns' = getFilePatterns(depth)
            /\ ignore' = collectIgnore
            /\ pc' = "findFiles"
            /\ UNCHANGED response
       ELSE /\ response' = [kind |-> "error", message |-> "Failed to collect files: ENOENT"]
            /\ pc' = "done"
            /\ UNCHANGED <<patterns, ignore>>
    /\ UNCHANGED <<fsVars, maxDepth, findVars, matches, returned, readVars, diagnostics>>

\* fs.stat(repoPath) and stats.isDirectory(); a failure is rethrown as
\* "Failed to collect files: ..."
CollectStat ==
    /\ tool = "collect_repo_files" /\ pc = "stat"
    /\ IF rootKind = "dir"
       THEN /\ patterns' = getFilePatterns(depth)
            /\ ignore' = collectIgnore
            /\ pc' = "findFiles"
            /\ UNCHANGED response
       ELSE /\ response' = [kind |-> "error",
                            message |-> IF rootKind = "file"
                                        THEN "Failed to collect files: Path is not a directory"
                                        ELSE "Failed to collect files: ENOENT"]
            /\ pc' = "done"
            /\ UNCHANGED <<patterns, ignore>>
    /\ UNCHANGED <<fsVars, maxDepth, findVars, matches, returned, readVars, diagnostics>>

(***************************************************************************)
(* suggestManifest, up to the call of findAndReadFiles.                    *)
(***************************************************************************)
\* fs.stat(repoPath), stats.isDirectory(), fs.readFile(SCHEMA_PATH); a
\* failure is rethrown as "Failed to generate manifest suggestion: ..."
SuggestStat ==
    /\ tool = "suggest_manifest" /\ pc = "stat"
    /\ \E schemaRead \in BOOLEAN :
        IF rootKind = "dir" /\ schemaRead
        THEN /\ patterns' = getFilePatterns(depth)
             /\ ignore' = collectIgnore
             /\ pc' = "findFiles"
             /\ UNCHANGED response
        ELSE /\ response' =
                  [kind |-> "error",
                   message |-> IF rootKind = "file"
                               THEN "Failed to generate manifest suggestion: Path is not a directory"
                               ELSE IF rootKind = "missing"
                               THEN "Failed to generate manifest suggestion: ENOENT"
                               ELSE "Failed to generate manifest suggestion: schema"]
             /\ pc' = "done"
             /\ UNCHANGED <<patterns, ignore>>
    /\ UNCHANGED <<fsVars, maxDepth, findVars, matches, returned, readVars, diagnostics>>

(***************************************************************************)
(* findFiles.                                                              *)
(***************************************************************************)
\* faulty variant: the depth of a call of walk is not counted
FrameDepthZero(dir, d) == [dir |-> dir, depth |-> 0, state |-> "call", entries |-> {}]

\* a call walk(dir, depth) that has not started
Frame(dir, d) == [dir |-> dir, depth |-> d, state |-> "call", entries |-> {}]

Top == stack[Len(stack)]
Pop == SubSeq(stack, 1, Len(stack) - 1)

\* the call: fresh results, the normalized lists, walk(baseDir). patterns.map
\* throws when patterns is no array, and findAndReadFiles catches that.
FindFilesCall ==
    /\ pc = "findFiles"
    /\ IF patterns.isArray
       THEN /\ normalizedPatterns' =
                   [i \in 1..Len(patterns.items) |-> normalizePattern(patterns.items[i])]
            /\ normalizedIgnore' = [i \in 1..Len(ignore) |-> normalizePattern(ignore[i])]
            /\ findResults' = <<>>
            /\ enumerated' = {}
            /\ stack' = <<Frame(<<>>, 0)>>
            /\ pc' = "walk"
            /\ UNCHANGED diagnostics
       ELSE /\ diagnostics' = Append(diagnostics, [kind |-> "File search failed"])
            /\ pc' = "respond"
            /\ UNCHANGED findVars
    /\ UNCHANGED <<fsVars, findArgs, matches, returned, readVars, response>>

\* faulty variant: a directory that cannot be listed ends the whole walk
WalkCallAborts ==
    /\ pc = "walk" /\ stack # <<>> /\ Top.state = "call"
    /\ IF Top.depth > maxDepth
       THEN stack' = Pop /\ UNCHANGED diagnostics
       ELSE IF ~CanReaddir(Top.dir)
       THEN /\ stack' = <<>>
            /\ diagnostics' = Append(diagnostics,
                                 [kind |-> "Cannot read directory", path |-> Top.dir])
       ELSE /\ stack' = [stack EXCEPT ![Len(stack)] =
                            [@ EXCEPT !.state = "loop", !.entries = Readdir(Top.dir)]]
            /\ UNCHANGED diagnostics
    /\ enumerated' = IF Top.depth > maxDepth THEN enumerated
                     ELSE enumerated \cup {Top.dir}
    /\ UNCHANGED <<fsVars, findArgs, normalizedPatterns, normalizedIgnore, findResults,
                   matches, returned, readVars, response, pc>>

\* walk(dir, depth) from its start to the result of fs.readdir
WalkCall ==
    /\ pc = "walk" /\ stack # <<>> /\ Top.state = "call"
    /\ IF Top.depth > maxDepth
       THEN stack' = Pop /\ UNCHANGED diagnostics
       ELSE IF ~CanReaddir(Top.dir)
       THEN /\ stack' = Pop
            /\ diagnostics' = Append(diagnostics,
                                 [kind |-> "Cannot read directory", path |-> Top.dir])
       ELSE /\ stack' = [stack EXCEPT ![Len(stack)] =
                            [@ EXCEPT !.state = "loop", !.entries = Readdir(Top.dir)]]
            /\ UNCHANGED diagnostics
    /\ enumerated' = IF Top.depth > maxDepth THEN enumerated
                     ELSE enumerated \cup {Top.dir}
    /\ UNCHANGED <<fsVars, findArgs, normalizedPatterns, normalizedIgnore, findResults,
                   matches, returned, readVars, response, pc>>

\* faulty variant: the ignore list is applied to files only
WalkEntryEntersIgnored ==
    /\ pc = "walk" /\ stack # <<>> /\ Top.state = "loop"
    /\ \E entry \in Top.entries :
        LET relativePath == JoinRelative(Top.dir, entry.name)
            rest == [stack EXCEPT ![Len(stack)].entries = @ \ {entry}]
        IN  IF entry.kind = "dir"
            THEN /\ stack' = Append(rest, Frame(relativePath, Top.depth + 1))
                 /\ UNCHANGED findResults
            ELSE IF shouldIgnore(relativePath, normalizedIgnore)
            THEN stack' = rest /\ UNCHANGED findResults
            ELSE /\ stack' = rest
                 /\ findResults' =
                        IF entry.kind = "file"
                           /\ matchesAnyPattern(relativePath, normalizedPatterns)
                        THEN SetAdd(findResults, relativePath)
                        ELSE findResults
    /\ UNCHANGED <<fsVars, findArgs, normalizedPatterns, normalizedIgnore, enumerated,
                   matches, returned, readVars, diagnostics, response, pc>>

\* faulty variant: a subdirectory stays among the entries still to process
WalkEntryAgain ==
    /\ pc = "walk" /\ stack # <<>> /\ Top.state = "loop"
    /\ \E entry \in Top.entries :
        LET relativePath == JoinRelative(Top.dir, entry.name)
            rest == [stack EXCEPT ![Len(stack)].entries = @ \ {entry}]
        IN  IF shouldIgnore(relativePath, normalizedIgnore)
            THEN stack' = rest /\ UNCHANGED findResults
            ELSE IF entry.kind = "dir"
            THEN /\ stack' = Append(stack, Frame(relativePath, Top.depth + 1))
                 /\ UNCHANGED findResults
            ELSE /\ stack' = rest
                 /\ findResults' =
                        IF entry.kind = "file"
                           /\ matchesAnyPattern(relativePath, normalizedPatterns)
                        THEN SetAdd(findResults, relativePath)
                        ELSE findResults
    /\ UNCHANGED <<fsVars, findArgs, normalizedPatterns, normalizedIgnore, enumerated,
                   matches, returned, readVars, diagnostics, response, pc>>

\* one iteration of for (const entry of entries)
WalkEntry ==
    /\ pc = "walk" /\ stack # <<>> /\ Top.state = "loop"
    /\ \E entry \in Top.entries :
        LET relativePath == JoinRelative(Top.dir, entry.name)
            rest == [stack EXCEPT ![Len(stack)].entries = @ \ {entry}]
        IN  IF shouldIgnore(relativePath, normalizedIgnore)
            THEN stack' = rest /\ UNCHANGED findResults
            ELSE IF entry.kind = "dir"
            THEN /\ stack' = Append(rest, Frame(relativePath, Top.depth + 1))
                 /\ UNCHANGED findResults
            ELSE /\ stack' = rest
                 /\ findResults' =
                        IF entry.kind = "file"
                           /\ matchesAnyPattern(relativePath, normalizedPatterns)
                        THEN SetAdd(findResults, relativePath)
                        ELSE findResults
    /\ UNCHANGED <<fsVars, findArgs, normalizedPatterns, normalizedIgnore, enumerated,
                   matches, returned, readVars, diagnostics, response, pc>>

\* the loop of walk is over: walk returns to its caller
WalkReturn ==
    /\ pc = "walk" /\ stack # <<>> /\ Top.state = "loop" /\ Top.entries = {}
    /\ stack' = Pop
    /\ UNCHANGED <<fsVars, findArgs, normalizedPatterns, normalizedIgnore, findResults,
                   enumerated, matches, returned, readVars, diagnostics, response, pc>>

\* faulty variant: the Set is returned in insertion order
FindFilesResultUnsorted(set) == set

\* return Array.from(results).sort()
FindFilesResult(set) == SortStrings(set)

FindFilesReturn ==
    /\ pc = "walk" /\ stack = <<>>
    /\ matches' = FindFilesResult(findResults)
    /\ returned' = Append(returned, [matches |-> FindFilesResult(findResults),
                                     inserted |-> findResults])
    /\ pc' = IF tool \in {"collect_repo_files", "suggest_manifest"} THEN "rank"
             ELSE IF returned = <<>> THEN "findFiles"
             ELSE "done"
    /\ UNCHANGED <<fsVars, findArgs, findVars, readVars, diagnostics, response>>

(***************************************************************************)
(* findAndReadFiles, after findFiles.                                      *)
(***************************************************************************)
\* faulty variant: no seenPaths, and a candidate is pushed for each pattern it matches
RECURSIVE WithPrioritiesPerPattern(_, _)
WithPrioritiesPerPattern(list, seenPaths) ==
    IF list = <<>> THEN <<>>
    ELSE [i \in 1..Cardinality({k \in 1..Len(normalizedPatterns) :
                                  matchPattern(list[1], normalizedPatterns[k])})
             |-> [path |-> list[1], priority |-> getFilePriority(list[1])]]
         \o WithPrioritiesPerPattern(Tail(list), seenPaths)

\* for (const match of matches): skip the paths seen, give each a priority
RECURSIVE WithPriorities(_, _)
WithPriorities(list, seenPaths) ==
    IF list = <<>> THEN <<>>
    ELSE IF list[1] \in seenPaths THEN WithPriorities(Tail(list), seenPaths)
    ELSE <<[path |-> list[1], priority |-> getFilePriority(list[1])]>>
         \o WithPriorities(Tail(list), seenPaths \cup {list[1]})

RankAndSort ==
    /\ pc = "rank"
    /\ allFiles' = SortByPriority(WithPriorities(matches, {}))
    /\ idx' = 1
    /\ pc' = "read"
    /\ UNCHANGED <<fsVars, findArgs, findVars, matches, returned, results, totalTokens,
                   disk, diagnostics, response>>

\* faulty variant: >= instead of >
ExceedsBudgetAtCap(total, tokens) == total + tokens >= MAX_TOTAL_TOKENS

\* if (totalTokens + tokens > MAX_TOTAL_TOKENS)
ExceedsBudget(total, tokens) == total + tokens > MAX_TOTAL_TOKENS

\* faulty variant: continue instead of break
BreakContinues(i) == [pc |-> "read", idx |-> i + 1]

\* faulty variant: the loop is left where it should take the next candidate
ContinueBreaks(i) == [pc |-> "collected", idx |-> i]

\* where the read loop goes on: break leaves it, continue (and the end of
\* the body, and the catch) takes the next candidate
Break(i) == [pc |-> "collected", idx |-> i]
Continue(i) == [pc |-> "read", idx |-> i + 1]

\* faulty variant: the content is never truncated
TruncatedNever(content) == content

\* content after if (content.length > MAX_FILE_SIZE) ...
Truncated(content) ==
    IF Length(content) > MAX_FILE_SIZE
    THEN truncateContent(content, MAX_FILE_SIZE)
    ELSE content

\* results.push({ path: match, content })
Push(list, match, content) == Append(list, [path |-> match, content |-> content])

\* one iteration of for (const { path: match } of allFiles); the tree does
\* not change, a path read before reads the same again
ReadFile ==
    /\ pc = "read" /\ idx <= Len(allFiles)
    /\ \E read \in ReadOutcomes :
        LET match == allFiles[idx].path
            content == Truncated(read.content)
            tokens == estimateTokens(content)
            next == IF ~read.ok \/ IncludesNul(read.content) THEN Continue(idx)
                    ELSE IF ExceedsBudget(totalTokens, tokens) THEN Break(idx)
                    ELSE Continue(idx)
            accept == /\ read.ok /\ ~IncludesNul(read.content)
                      /\ ~ExceedsBudget(totalTokens, tokens)
        IN  /\ match \in DOMAIN disk => read = disk[match]
            /\ disk' = (match :> read) @@ disk
            /\ diagnostics' = diagnostics \o
                 (IF ~read.ok
                  THEN <<[kind |-> "Could not read", path |-> match]>>
                  ELSE IF IncludesNul(read.content)
                  THEN <<[kind |-> "Skipping: appears to be binary", path |-> match]>>
                  ELSE (IF Length(read.content) > MAX_FILE_SIZE
                        THEN <<[kind |-> "Truncating: too large", path |-> match,
                                chars |-> Length(read.content), keeping |-> MAX_FILE_SIZE]>>
                        ELSE <<>>)
                       \o
                       (IF ExceedsBudget(totalTokens, tokens)
                        THEN <<[kind |-> "Reached token budget limit",
                                totalTokens |-> totalTokens,
                                collected |-> Len(results),
                                skipping |-> Len(allFiles) - Len(results)]>>
                        ELSE <<>>))
            /\ results' = IF accept THEN Push(results, match, content) ELSE results
            /\ totalTokens' = IF accept THEN totalTokens + tokens ELSE totalTokens
            /\ pc' = next.pc
            /\ idx' = next.idx
    /\ UNCHANGED <<fsVars, findArgs, findVars, matches, returned, allFiles, response>>

\* after the loop: the summary line, and return results
ReadLoopEnd ==
    /\ \/ pc = "collected"
       \/ pc = "read" /\ idx > Len(allFiles)
    /\ diagnostics' = Append(diagnostics,
                         [kind |-> "Collected", files |-> Len(results),
                          tokens |-> totalTokens])
    /\ pc' = "respond"
    /\ UNCHANGED <<fsVars, findArgs, findVars, matches, returned, readVars, response>>

(***************************************************************************)
(* collectRepoFiles, after findAndReadFiles.                               *)
(***************************************************************************)
\* files.map((f) => ({ path: f.path, sizeBytes: f.content.length, content: f.content }))
FileEntry(f) == [path |-> f.path, sizeBytes |-> Length(f.content), content |-> f.content]

Respond ==
    /\ tool = "collect_repo_files" /\ pc = "respond"
    /\ response' =
         IF Len(results) = 0
         THEN [kind |-> "ok", filesCollected |-> 0,
               warning |-> "No relevant files found",
               files |-> <<>>]
         ELSE [kind |-> "ok", filesCollected |-> Len(results), depth |-> depth,
               files |-> [i \in 1..Len(results) |-> FileEntry(results[i])]]
    /\ pc' = "done"
    /\ UNCHANGED <<fsVars, findArgs, findVars, matches, returned, readVars, diagnostics>>

(***************************************************************************)
(* suggestManifest, after findAndReadFiles.                                *)
(***************************************************************************)
\* faulty variant: no file is answered like some files
SuggestRespondNoNotice ==
    /\ tool = "suggest_manifest" /\ pc = "respond"
    /\ response' = [kind |-> "ok", text |-> "# Phaset Manifest Generation",
                    files |-> [i \in 1..Len(results) |-> results[i].path]]
    /\ pc' = "done"
    /\ UNCHANGED <<fsVars, findArgs, findVars, matches, returned, readVars, diagnostics>>

\* the text answered: the notice that nothing was found, or the schema, the
\* files and the prompt
SuggestRespond ==
    /\ tool = "suggest_manifest" /\ pc = "respond"
    /\ response' =
         IF Len(results) = 0
         THEN [kind |-> "ok", text |-> "I couldn't find any relevant files"]
         ELSE [kind |-> "ok", text |-> "# Phaset Manifest Generation",
               files |-> [i \in 1..Len(results) |-> results[i].path]]
    /\ pc' = "done"
    /\ UNCHANGED <<fsVars, findArgs, findVars, matches, returned, readVars, diagnostics>>

Next ==
    \/ CollectStat
    \/ FindFilesCall
    \/ WalkCall
    \/ WalkEntry
    \/ WalkReturn
    \/ FindFilesReturn
    \/ RankAndSort
    \/ ReadFile
    \/ ReadLoopEnd
    \/ Respond

Spec == Init /\ [][Next]_vars

\* findFiles alone, called a first and a second time on the same tree
NextFind ==
    \/ FindFilesCall
    \/ WalkCall
    \/ WalkEntry
    \/ WalkReturn
    \/ FindFilesReturn

SpecFind == InitFind /\ [][NextFind]_vars

\* the two tools that collect files
NextTools ==
    \/ CollectStat
    \/ SuggestStat
    \/ FindFilesCall
    \/ WalkCall
    \/ WalkEntry
    \/ WalkReturn
    \/ FindFilesReturn
    \/ RankAndSort
    \/ ReadFile
    \/ ReadLoopEnd
    \/ Respond
    \/ SuggestRespond

SpecTools == InitTools /\ [][NextTools]_vars

(***************************************************************************)
(* matchPattern alone.                                                     *)
(***************************************************************************)
ArgFilePath == CHOOSE filePath \in fsFiles : TRUE
ArgPattern == patterns.items[1]

\* return regex.test(filePath)
MatchPatternCall ==
    /\ tool = "matchPattern" /\ pc = "matchPattern"
    /\ response' = [kind |-> "ok", value |-> matchPattern(ArgFilePath, ArgPattern)]
    /\ pc' = "done"
    /\ UNCHANGED <<fsVars, findArgs, findVars, matches, returned, readVars, diagnostics>>

NextMatch == MatchPatternCall

SpecMatch == InitMatch /\ [][NextMatch]_vars
(***************************************************************************)
(* Properties.                                                             *)
(***************************************************************************)
\* the least k with 4 * k >= n
CeilQuarter(n) == IF n % 4 = 0 THEN n \div 4 ELSE n \div 4 + 1

RECURSIVE SumOfCosts(_)
SumOfCosts(list) ==
    IF list = <<>> THEN 0
    ELSE CeilQuarter(Length(list[1].content)) + SumOfCosts(Tail(list))

ResultPaths == {results[i].path : i \in 1..Len(results)}

\* the read loop is about to read a candidate
Reading == pc = "read" /\ idx <= Len(allFiles)

\* in a step of the read loop: the file was read and holds no null byte
ReadText == disk'[allFiles[idx].path].ok
            /\ ~IncludesNul(disk'[allFiles[idx].path].content)

\* in a step of the read loop: the cost of the content read, as returned
CostRead ==
    LET read == disk'[allFiles[idx].path].content
    IN  IF Length(read) > MAX_FILE_SIZE
        THEN CeilQuarter(MAX_FILE_SIZE + Len(TruncationNotice(MAX_FILE_SIZE).s))
        ELSE CeilQuarter(Length(read))

\* the read loop was left by break, at allFiles[idx]
Broke == pc \in {"collected", "respond", "done"} /\ idx <= Len(allFiles)

\* C1: the estimated cost of the accepted files, the sum of
\* ceil(content.length / 4), is at most MAX_TOTAL_TOKENS after every
\* iteration and at return, and it is the running total; a candidate is
\* accepted exactly when its cost brings the total to at most the cap, so
\* exactly the cap is accepted and one token more is not.
BudgetKept ==
    /\ SumOfCosts(results) <= MAX_TOTAL_TOKENS
    /\ totalTokens = SumOfCosts(results)

AcceptedIffFits ==
    (Reading /\ ReadText) =>
        /\ (totalTokens + CostRead <= MAX_TOTAL_TOKENS) <=>
                (Len(results') = Len(results) + 1
                 /\ results'[Len(results')].path = allFiles[idx].path)
        /\ (totalTokens + CostRead > MAX_TOTAL_TOKENS) <=> (results' = results)

Theorem_C1 == [] BudgetKept /\ [][AcceptedIffFits]_vars

\* the total is exactly the cap, and a later candidate overflowed
Witness_C1 ==
    /\ Broke
    /\ Len(results) = 2
    /\ totalTokens = MAX_TOTAL_TOKENS

\* the part of a returned content that comes from the file: all of it but
\* the truncation notice
FilePart(content) ==
    SelectSeq(content, LAMBDA piece : piece # TruncationNotice(MAX_FILE_SIZE))

RankOf == [p \in RepoFiles |-> getFilePriority(p)]

\* a comes before b in the order (priority rank, relative path)
RankPathLess(a, b) ==
    \/ RankOf[a] < RankOf[b]
    \/ RankOf[a] = RankOf[b] /\ StrLess(a, b)

\* position of a path in allFiles
PositionOf(p) == CHOOSE k \in 1..Len(allFiles) : allFiles[k].path = p

\* C3: the returned files are in ascending order of (priority rank, relative
\* path), and they are in the order of the candidates: a skipped candidate
\* does not reorder the others.
Theorem_C3 ==
    /\ \A i, j \in 1..Len(allFiles) :
            i < j => RankPathLess(allFiles[i].path, allFiles[j].path)
    /\ \A i, j \in 1..Len(results) :
            i < j => /\ RankPathLess(results[i].path, results[j].path)
                     /\ PositionOf(results[i].path) < PositionOf(results[j].path)

\* two files of one rank were returned in path order, after a file that the
\* sort moved in front of a path smaller than its own had been skipped
Witness_C3 ==
    /\ Len(results) = 2
    /\ idx = 4
    /\ RankOf[results[1].path] = RankOf[results[2].path]
    /\ StrLess(allFiles[2].path, allFiles[1].path)
    /\ allFiles[1].path \notin ResultPaths

\* C4: the files collect_repo_files returns never hold one path twice.
Theorem_C4 ==
    /\ \A i, j \in 1..Len(results) : results[i].path = results[j].path => i = j
    /\ response.kind = "ok" =>
        \A i, j \in 1..Len(response.files) :
            response.files[i].path = response.files[j].path => i = j

\* a file that two patterns of the profile match was returned, with another
Witness_C4 ==
    /\ pc = "done" /\ response.kind = "ok"
    /\ Len(response.files) >= 2
    /\ \E i \in 1..Len(response.files) :
        Cardinality({k \in 1..Len(normalizedPatterns) :
            matchPattern(response.files[i].path, normalizedPatterns[k])}) >= 2

\* C8: when a candidate's cost would push the running total above the cap,
\* the read loop is left at once; that candidate and every candidate ranked
\* after it are absent from the result, and the later ones are not even read.
StopsAtOverflow ==
    (Reading /\ ReadText /\ totalTokens + CostRead > MAX_TOTAL_TOKENS) =>
        pc' # "read" /\ idx' = idx /\ results' = results

NothingAfterBreak ==
    Broke =>
        /\ disk[allFiles[idx].path].ok
        /\ totalTokens + CeilQuarter(Length(Truncated(disk[allFiles[idx].path].content)))
              > MAX_TOTAL_TOKENS
        /\ \A k \in idx..Len(allFiles) : allFiles[k].path \notin ResultPaths
        /\ \A k \in (idx + 1)..Len(allFiles) : allFiles[k].path \notin DOMAIN disk

Theorem_C8 == [] NothingAfterBreak /\ [][StopsAtOverflow]_vars

\* the loop was left with a candidate still behind the one that overflowed
Witness_C8 ==
    /\ pc = "done"
    /\ Broke
    /\ idx < Len(allFiles)
    /\ Len(results) >= 1

\* kept is what is left of whole when it is cut after Length(kept) characters
IsPrefix(kept, whole) ==
    /\ Len(kept) <= Len(whole)
    /\ \A k \in 1..Len(kept) :
        /\ kept[k].s = whole[k].s
        /\ IF k < Len(kept) THEN kept[k].n = whole[k].n
           ELSE kept[k].n >= 1 /\ kept[k].n <= whole[k].n

\* C9: a file longer than MAX_FILE_SIZE is returned as its first MAX_FILE_SIZE
\* characters followed by the notice that names the cap; a file of at most
\* MAX_FILE_SIZE characters is returned unchanged, without notice.
Theorem_C9 ==
    \A i \in 1..Len(results) :
        LET content == results[i].content
            onDisk == disk[results[i].path].content
        IN  IF Length(onDisk) > MAX_FILE_SIZE
            THEN /\ Len(content) >= 2
                 /\ content[Len(content)] =
                        [s |-> "\n\n... [Content truncated - file too large. Showing first 50000 characters]",
                         n |-> 1]
                 /\ Length(SubSeq(content, 1, Len(content) - 1)) = MAX_FILE_SIZE
                 /\ IsPrefix(SubSeq(content, 1, Len(content) - 1), onDisk)
            ELSE content = onDisk

\* a file one character over the cap and a file below it were returned
Witness_C9 ==
    /\ \E i \in 1..Len(results) : Length(disk[results[i].path].content) = MAX_FILE_SIZE + 1
    /\ \E i \in 1..Len(results) : Length(disk[results[i].path].content) = 0

\* C10: the size reported with each returned file is the size of the file's
\* content before truncation.
Claim_C10 ==
    response.kind = "ok" =>
        \A i \in 1..Len(response.files) :
            response.files[i].sizeBytes = Length(disk[response.files[i].path].content)

(***************************************************************************)
(* Properties of findFiles, for SpecFind.                                  *)
(***************************************************************************)
\* the path matches a pattern of the call's inclusion list, of its ignore list
Included(p) == \E i \in 1..Len(patterns.items) : matchPattern(p, patterns.items[i])
Excluded(p) == \E i \in 1..Len(ignore) : matchPattern(p, ignore[i])

\* number of directories above the file
DirSegments(p) == Cardinality({k \in 1..Len(p) : p[k] = "/"})

Returned(r) == {r.matches[i] : i \in 1..Len(r.matches)}

\* C5 as stated: a file that matches an ignore pattern is in no result; a
\* file (that matches none) which matches an inclusion pattern and lies in
\* directories that are not excluded is in the result.
Original_C5 ==
    \A n \in 1..Len(returned) :
        /\ \A f \in fsFiles : Excluded(f) => f \notin Returned(returned[n])
        /\ \A f \in fsFiles :
            (Included(f) /\ ~Excluded(f) /\ \A d \in Ancestors(f) : ~Excluded(d))
                => f \in Returned(returned[n])

\* C5, amended: a file that matches an ignore pattern is in no result; a
\* file that matches none and matches an inclusion pattern is in the result
\* when the directories above it are not excluded, can be listed, and are at
\* most maxDepth deep.
Theorem_C5 ==
    \A n \in 1..Len(returned) :
        /\ \A f \in fsFiles : Excluded(f) => f \notin Returned(returned[n])
        /\ \A f \in fsFiles :
            (/\ Included(f) /\ ~Excluded(f)
             /\ \A d \in Ancestors(f) : ~Excluded(d)
             /\ \A d \in Ancestors(f) \cup {<<>>} : CanReaddir(d)
             /\ DirSegments(f) <= maxDepth)
                => f \in Returned(returned[n])

\* a file matching both lists is left out and a file in a directory that is
\* not excluded is returned
Witness_C5 ==
    /\ returned # <<>>
    /\ \E f \in fsFiles : Included(f) /\ Excluded(f) /\ f \notin Returned(returned[1])
    /\ \E f \in fsFiles : DirSegments(f) = 1 /\ f \in Returned(returned[1])

\* C6: what findFiles returns is strictly ascending in code unit order:
\* sorted, and no path twice.
Theorem_C6 ==
    \A n \in 1..Len(returned) :
        \A i, j \in 1..Len(returned[n].matches) :
            i < j => StrLess(returned[n].matches[i], returned[n].matches[j])

\* a file that three patterns match was found before a smaller path
Witness_C6 ==
    /\ returned # <<>>
    /\ Len(returned[1].matches) = 2
    /\ returned[1].inserted # returned[1].matches
    /\ Cardinality({k \in 1..Len(normalizedPatterns) :
            matchPattern(returned[1].inserted[1], normalizedPatterns[k])}) = 3

\* C7: on one tree, with the same patterns and options, findFiles returns
\* the same sequence whatever the order in which the directories list
\* their entries.
Theorem_C7 ==
    Len(returned) = 2 => returned[1].matches = returned[2].matches

\* the two calls came upon the files in different orders
Witness_C7 ==
    /\ Len(returned) = 2
    /\ Len(returned[1].matches) >= 2
    /\ returned[1].inserted # returned[2].inserted


(***************************************************************************)
(* Properties of the read loop: candidates that are skipped.               *)
(***************************************************************************)
\* the content holds the character U+0000
HasNul(content) == \E k \in 1..Len(content) : content[k].s = "NUL" /\ content[k].n >= 1

\* the diagnostics that name the path p
Naming(p) ==
    {k \in 1..Len(diagnostics) :
        "path" \in DOMAIN diagnostics[k] /\ diagnostics[k].path = p}

\* the candidate the read loop is at, and what this step read for it
Candidate == allFiles[idx].path
JustRead == disk'[Candidate]

\* this step went on to the next candidate and accepted nothing
SkippedWith(diagnostic) ==
    /\ results' = results
    /\ totalTokens' = totalTokens
    /\ diagnostics' = Append(diagnostics, diagnostic)
    /\ pc' = "read"
    /\ idx' = idx + 1

BinaryAbsent ==
    \A p \in DOMAIN disk :
        (disk[p].ok /\ HasNul(disk[p].content)) =>
            /\ p \notin ResultPaths
            /\ Cardinality(Naming(p)) = 1
            /\ \A k \in Naming(p) : diagnostics[k].kind = "Skipping: appears to be binary"

BinarySkipped ==
    (Reading /\ JustRead.ok /\ HasNul(JustRead.content)) =>
        SkippedWith([kind |-> "Skipping: appears to be binary", path |-> Candidate])

\* C11: a candidate whose content holds a null byte is not in the result,
\* has exactly one diagnostic, which names it, leaves the running total as
\* it was, and the loop goes on with the next candidate.
Theorem_C11 == [] BinaryAbsent /\ [][BinarySkipped]_vars

\* a candidate ranked after a binary one was accepted
Witness_C11 ==
    \E i, j \in 1..Len(allFiles) :
        /\ i < j
        /\ allFiles[i].path \in DOMAIN disk
        /\ disk[allFiles[i].path].ok
        /\ HasNul(disk[allFiles[i].path].content)
        /\ allFiles[j].path \in ResultPaths

UnreadAbsent ==
    \A p \in DOMAIN disk :
        ~disk[p].ok =>
            /\ p \notin ResultPaths
            /\ \A k \in Naming(p) : diagnostics[k].kind = "Could not read"
            /\ Cardinality(Naming(p)) = 1

UnreadSkipped ==
    (Reading /\ ~JustRead.ok) =>
        SkippedWith([kind |-> "Could not read", path |-> Candidate])

StillSucceeds ==
    (pc = "done" /\ \E p \in DOMAIN disk : ~disk[p].ok) => response.kind = "ok"

\* C12: a candidate whose read fails is skipped with a diagnostic, the
\* result and the running total stay as they were, the loop goes on with the
\* next candidate, and the call answers normally.
Theorem_C12 == [] (UnreadAbsent /\ StillSucceeds) /\ [][UnreadSkipped]_vars

\* a read failed, a candidate ranked after it was accepted, and the call
\* has answered
Witness_C12 ==
    /\ pc = "done"
    /\ \E i, j \in 1..Len(allFiles) :
        /\ i < j
        /\ allFiles[i].path \in DOMAIN disk
        /\ ~disk[allFiles[i].path].ok
        /\ allFiles[j].path \in ResultPaths

(***************************************************************************)
(* Properties of the answer of collect_repo_files.                         *)
(***************************************************************************)
DiagnosticKinds == {diagnostics[k].kind : k \in 1..Len(diagnostics)}

RejectedIffNotDirectory ==
    pc = "done" => (response.kind = "error" <=> rootKind # "dir")

CheckedBeforeWalk ==
    /\ rootKind # "dir" => pc \in {"stat", "done"}
    /\ response.kind = "error" =>
        /\ "files" \notin DOMAIN response
        /\ returned = <<>> /\ findResults = <<>> /\ stack = <<>>
        /\ disk = <<>> /\ results = <<>> /\ diagnostics = <<>>

DegradesGracefully ==
    (pc = "done" /\ rootKind = "dir") =>
        /\ response.kind = "ok"
        /\ "files" \in DOMAIN response

\* C13: collect_repo_files answers with an error exactly when the root path
\* is missing or is no directory; then nothing was walked or read and no
\* file list is answered; with a directory as root every other failure
\* (directory or file that cannot be read, binary or oversized file, budget
\* used up, failure of the search) ends in a normal answer.
Theorem_C13 == RejectedIffNotDirectory /\ CheckedBeforeWalk /\ DegradesGracefully

\* a directory and a file could not be read, and the call answered normally
Witness_C13 ==
    /\ pc = "done"
    /\ response.kind = "ok"
    /\ "Cannot read directory" \in DiagnosticKinds
    /\ "Could not read" \in DiagnosticKinds

\* findAndReadFiles returned, and returned no file
CollectedNothing ==
    /\ pc = "done"
    /\ rootKind = "dir"
    /\ DiagnosticKinds \cap {"Collected", "File search failed"} # {}
    /\ results = <<>>

\* C14: when the collection on an existing directory gives no file,
\* collect_repo_files answers normally with filesCollected = 0, no files
\* and the warning that no relevant files were found, and suggest_manifest
\* answers the text that explains it; neither answers an error.
Theorem_C14 ==
    CollectedNothing =>
        IF tool = "collect_repo_files"
        THEN /\ response.kind = "ok"
             /\ response.filesCollected = 0
             /\ response.files = <<>>
             /\ response.warning = "No relevant files found"
        ELSE /\ response.kind = "ok"
             /\ response.text = "I couldn't find any relevant files"
             /\ "files" \notin DOMAIN response

\* suggest_manifest on a directory whose only file is binary
Witness_C14 ==
    /\ CollectedNothing
    /\ tool = "suggest_manifest"
    /\ \E p \in DOMAIN disk : disk[p].ok /\ HasNul(disk[p].content)

\* C15: with a depth that is none of "minimal", "standard", "deep",
\* collect_repo_files uses the patterns of "standard" and the search does
\* not fail.
Claim_C15 ==
    (depth \notin {"minimal", "standard", "deep"} /\ rootKind = "dir" /\ pc # "stat") =>
        /\ patterns = getFilePatterns("standard")
        /\ "File search failed" \notin DiagnosticKinds

(***************************************************************************)
(* Properties of findFiles: the depth limit.                               *)
(***************************************************************************)
\* depth of a directory below the root: 0 for the root itself
SegmentsOf(dir) == IF dir = <<>> THEN 0 ELSE DirSegments(dir) + 1

\* walk is called with the depth of the directory, on directories that are
\* not excluded
FramesAtTheirDepth ==
    \A k \in 1..Len(stack) :
        /\ stack[k].depth = SegmentsOf(stack[k].dir)
        /\ \A d \in Ancestors(stack[k].dir) \cup ({stack[k].dir} \ {<<>>}) : ~Excluded(d)

\* a call of walk on a directory that can be listed lists it exactly when
\* the directory is at most maxDepth deep
EnumeratedIffWithin ==
    (pc = "walk" /\ stack # <<>> /\ Top.state = "call" /\ CanReaddir(Top.dir)) =>
        ((/\ Len(stack') = Len(stack)
          /\ stack'[Len(stack)].state = "loop"
          /\ stack'[Len(stack)].entries = Readdir(Top.dir))
         <=> SegmentsOf(Top.dir) <= maxDepth)

ReturnedWithinDepth ==
    \A n \in 1..Len(returned) :
        \A f \in Returned(returned[n]) :
            /\ DirSegments(f) <= maxDepth
            /\ maxDepth = 0 => \A k \in 1..Len(f) : f[k] # "/"

\* C16: a directory at depth d (the root at 0) that is reached and can be
\* listed is listed exactly when d <= maxDepth; so a file below k
\* directories is returned only if k <= maxDepth, and with maxDepth = 0
\* only files of the root are returned.
Theorem_C16 ==
    [] (FramesAtTheirDepth /\ ReturnedWithinDepth) /\ [][EnumeratedIffWithin]_vars

\* with maxDepth = 0 a file of the root was returned and a matching file
\* in a directory was not
Witness_C16 ==
    /\ returned # <<>>
    /\ maxDepth = 0
    /\ returned[1].matches # <<>>
    /\ \E f \in fsFiles :
        DirSegments(f) >= 1 /\ Included(f) /\ ~Excluded(f) /\ CanReaddir(ParentOf(f))

(***************************************************************************)
(* Properties of findFiles: which files are returned.                      *)
(***************************************************************************)
\* C20 as stated: a file within the depth limit is returned exactly when
\* its own path matches an inclusion pattern and no exclusion pattern.
Original_C20 ==
    \A n \in 1..Len(returned) :
        \A f \in fsFiles :
            DirSegments(f) <= maxDepth =>
                (f \in Returned(returned[n]) <=> (Included(f) /\ ~Excluded(f)))

\* the walk comes to the file: it is within the depth limit, and every
\* directory above it is not excluded and can be listed
Reached(f) ==
    /\ DirSegments(f) <= maxDepth
    /\ \A d \in Ancestors(f) \cup {<<>>} : CanReaddir(d)
    /\ \A d \in Ancestors(f) : ~Excluded(d)

\* C20, amended: a file is returned exactly when the walk comes to it (depth
\* limit kept, every directory above it not excluded and listable) and its
\* own path matches an inclusion pattern and no exclusion pattern; the two
\* tests can be made in either order.
Theorem_C20 ==
    \A n \in 1..Len(returned) :
        /\ Returned(returned[n]) =
              {f \in fsFiles : Reached(f) /\ Included(f) /\ ~Excluded(f)}
        /\ Returned(returned[n]) =
              {f \in fsFiles : Reached(f) /\ ~Excluded(f) /\ Included(f)}

\* a file below an excluded directory matches an inclusion pattern and no
\* exclusion pattern and is not returned, and another file is
Witness_C20 ==
    /\ returned # <<>>
    /\ Returned(returned[1]) # {}
    /\ \E f \in fsFiles :
        /\ DirSegments(f) <= maxDepth
        /\ Included(f) /\ ~Excluded(f)
        /\ \E d \in Ancestors(f) : Excluded(d)
        /\ f \notin Returned(returned[1])


(***************************************************************************)
(* Properties of matchPattern, for SpecMatch.                              *)
(***************************************************************************)
Stars(p) == Cardinality({k \in 1..Len(p) : p[k] = "*"})

EndsWith(s, suffix) ==
    Len(suffix) <= Len(s) /\ SubSeq(s, Len(s) - Len(suffix) + 1, Len(s)) = suffix

\* the text before and after the one * of a pattern
StarAt(p) == CHOOSE k \in 1..Len(p) : p[k] = "*"
BeforeStar(p) == SubSeq(p, 1, StarAt(p) - 1)
AfterStar(p) == SubSeq(p, StarAt(p) + 1, Len(p))

\* path is prefix, then characters other than "/", then suffix
FillsOneSegment(path, prefix, suffix) ==
    /\ Len(path) >= Len(prefix) + Len(suffix)
    /\ StartsWith(path, prefix)
    /\ EndsWith(path, suffix)
    /\ \A k \in (Len(prefix) + 1)..(Len(path) - Len(suffix)) : path[k] # "/"

\* C17: a single * stands for zero or more characters other than "/":
\* dir/*.ext matches exactly the paths dir/<name>.ext with no "/" in
\* <name>, so never a file in a directory below dir, and *.ext matches no
\* path that holds a "/".
Theorem_C17 ==
    (pc = "done" /\ Stars(ArgPattern) = 1) =>
        /\ response.value <=>
             FillsOneSegment(ArgFilePath, BeforeStar(ArgPattern), AfterStar(ArgPattern))
        /\ response.value => DirSegments(ArgFilePath) = DirSegments(ArgPattern)

\* src/*.ts was tried on src/.ts, where * stands for no character, and on
\* nothing deeper
Witness_C17 ==
    /\ pc = "done"
    /\ ArgPattern = <<"s","r","c","/","*",".","t","s">>
    /\ ArgFilePath = <<"s","r","c","/",".","t","s">>
    /\ response.value

\* the place of **/* in a pattern, 0 when it has none
DeepAt(p) ==
    IF \E k \in 1..(Len(p) - 3) : SubSeq(p, k, k + 3) = <<"*","*","/","*">>
    THEN CHOOSE k \in 1..(Len(p) - 3) : SubSeq(p, k, k + 3) = <<"*","*","/","*">>
    ELSE 0

\* C18: **/ stands for zero or more whole segments: **/*.ext matches a
\* file with that extension at any depth, the root included, and
\* dir/**/*.ext matches such files in dir and at any depth below it, and
\* no path outside dir.
Claim_C18 ==
    (pc = "done" /\ DeepAt(ArgPattern) > 0 /\ Stars(ArgPattern) = 3) =>
        LET prefix == SubSeq(ArgPattern, 1, DeepAt(ArgPattern) - 1)
            ext == SubSeq(ArgPattern, DeepAt(ArgPattern) + 4, Len(ArgPattern))
        IN  response.value <=>
                /\ Len(ArgFilePath) >= Len(prefix) + Len(ext)
                /\ StartsWith(ArgFilePath, prefix)
                /\ EndsWith(ArgFilePath, ext)

\* C19: a pattern without * matches a path exactly when the two are the
\* same, character for character.
Claim_C19 ==
    (pc = "done" /\ Stars(ArgPattern) = 0) =>
        (response.value <=> ArgFilePath = ArgPattern)


(***************************************************************************)
(* Properties of findFiles: directories that are not listed.               *)
(***************************************************************************)
\* the directory dir is the path p or lies above it
AtOrAbove(dir, p) == dir = <<>> \/ dir = p \/ dir \in Ancestors(p)

\* the walk calls fs.readdir on dir: dir is within the depth limit, it and
\* the directories above it are not excluded, and those above it can be listed
Tried(dir) ==
    /\ SegmentsOf(dir) <= maxDepth
    /\ \A d \in Ancestors(dir) \cup ({dir} \ {<<>>}) : ~Excluded(d)
    /\ \A d \in (Ancestors(dir) \cup {<<>>}) \ {dir} : CanReaddir(d)

\* no call is in progress
BetweenCalls == pc \in {"findFiles", "done"}

NothingBelowUnreadable ==
    \A n \in 1..Len(returned) :
        /\ \A f \in Returned(returned[n]) :
              \A d \in Ancestors(f) \cup {<<>>} : CanReaddir(d)
        /\ ~CanReaddir(<<>>) => returned[n].matches = <<>>

OneNoticePerFailure ==
    BetweenCalls =>
        \A d \in fsDirs \cup {<<>>} :
            Cardinality({k \in Naming(d) : diagnostics[k].kind = "Cannot read directory"})
                = IF Tried(d) /\ ~CanReaddir(d) THEN Len(returned) ELSE 0

RestStillReturned ==
    \A n \in 1..Len(returned) :
        \A f \in fsFiles :
            (/\ \A d \in unreadable : ~AtOrAbove(d, f)
             /\ rootKind = "dir"
             /\ DirSegments(f) <= maxDepth
             /\ \A d \in Ancestors(f) : ~Excluded(d)
             /\ Included(f) /\ ~Excluded(f))
                => f \in Returned(returned[n])

\* C21: findFiles does not fail on a file system error: below a directory
\* that cannot be listed nothing is returned, one diagnostic tells of it,
\* and the matching files elsewhere are returned all the same; when the
\* root cannot be listed the result is empty.
Theorem_C21 ==
    /\ response.kind # "error"
    /\ NothingBelowUnreadable
    /\ OneNoticePerFailure
    /\ RestStillReturned

\* a matching file below a directory that cannot be listed, and another
\* file that was returned
Witness_C21 ==
    /\ pc = "done"
    /\ Returned(returned[1]) # {}
    /\ \E d \in unreadable \ {<<>>} :
        /\ Tried(d)
        /\ \E f \in fsFiles : d \in Ancestors(f) /\ Included(f) /\ ~Excluded(f)

\* the directories walk has been called on and has not returned from
Walking == {stack[k].dir : k \in 1..Len(stack)}

\* the path lies in a directory that matches an exclusion pattern
BelowExcluded(p) == \E d \in Ancestors(p) : Excluded(d)

\* an excluded entry is passed over: no call of walk, nothing added
ExcludedEntryPassed ==
    (pc = "walk" /\ stack # <<>> /\ Top.state = "loop" /\ Len(stack') = Len(stack)
     /\ \E entry \in Top.entries \ stack'[Len(stack)].entries :
            Excluded(JoinRelative(Top.dir, entry.name)))
        => findResults' = findResults

NothingBelowExcluded ==
    /\ \A d \in Walking : d # <<>> => ~Excluded(d) /\ ~BelowExcluded(d)
    /\ \A i \in 1..Len(findResults) : ~BelowExcluded(findResults[i])
    /\ \A n \in 1..Len(returned) : \A f \in Returned(returned[n]) : ~BelowExcluded(f)

\* C22: a directory whose path matches an exclusion pattern is passed
\* over: walk is never called on it nor on anything below it, and no file
\* below it is returned, whatever the file's own path matches.
Theorem_C22 == [] NothingBelowExcluded /\ [][ExcludedEntryPassed]_vars

\* a file that matches an inclusion pattern and no exclusion pattern lies
\* in an excluded directory, and both calls left it out
Witness_C22 ==
    /\ Len(returned) = 2
    /\ \E f \in fsFiles :
        /\ BelowExcluded(f) /\ Included(f) /\ ~Excluded(f)
        /\ DirSegments(f) <= maxDepth
        /\ \A d \in Ancestors(f) \cup {<<>>} : CanReaddir(d)
        /\ f \notin Returned(returned[1]) \cup Returned(returned[2])

\* the directory an exclusion pattern of the form D/** names, <<>> for a
\* pattern of another form
TreeExcluded(pattern) ==
    IF Len(pattern) > 3 /\ EndsWith(pattern, <<"/","*","*">>)
       /\ Stars(pattern) = 2
    THEN SubSeq(pattern, 1, Len(pattern) - 3)
    ELSE <<>>

\* C23: with an exclusion pattern D/** the walk does not enter D: D is
\* never listed.
Claim_C23 ==
    \A i \in 1..Len(ignore) :
        TreeExcluded(ignore[i]) # <<>> => TreeExcluded(ignore[i]) \notin Walking

(***************************************************************************)
(* Properties of the read loop: what the budget leaves out.                *)
(***************************************************************************)
\* C26: when the loop stops on the budget, the number of files its
\* diagnostic gives as skipped is the number of candidates the budget left
\* out: the one that did not fit and those ranked after it.
Claim_C26 ==
    Broke =>
        \A k \in 1..Len(diagnostics) :
            diagnostics[k].kind = "Reached token budget limit" =>
                diagnostics[k].skipping = Len(allFiles) - idx + 1

\* the candidate was read as text: the read did not fail and gave no null byte
ReadAsText(p) == p \in DOMAIN disk /\ disk[p].ok /\ ~HasNul(disk[p].content)

\* the read loop is over
LoopOver == pc \in {"collected", "respond", "done"}

\* the first candidate, in rank order, that was read as text
FirstText ==
    CHOOSE k \in 1..Len(allFiles) :
        /\ ReadAsText(allFiles[k].path)
        /\ \A j \in 1..(k - 1) : ~ReadAsText(allFiles[j].path)

\* C28: when some candidate can be read and holds no null byte, the result
\* is not empty: the first such candidate in rank order is accepted, since
\* one file, truncated or not, costs at most
\* ceil((MAX_FILE_SIZE + length of the notice) / 4) < MAX_TOTAL_TOKENS.
Theorem_C28 ==
    /\ CeilQuarter(MAX_FILE_SIZE + Len(TruncationNotice(MAX_FILE_SIZE).s)) < MAX_TOTAL_TOKENS
    /\ \A p \in DOMAIN disk :
          ReadAsText(p) =>
              CeilQuarter(Length(Truncated(disk[p].content)))
                  <= CeilQuarter(MAX_FILE_SIZE + Len(TruncationNotice(MAX_FILE_SIZE).s))
    /\ (\E k \in 1..Len(allFiles) : ReadAsText(allFiles[k].path)) =>
          /\ results # <<>>
          /\ results[1].path = allFiles[FirstText].path
    /\ (LoopOver /\ results = <<>>) =>
          \A k \in 1..Len(allFiles) :
              allFiles[k].path \in DOMAIN disk /\ ~ReadAsText(allFiles[k].path)

\* the first candidate that was read as text was longer than MAX_FILE_SIZE
\* and came after a candidate that was skipped
Witness_C28 ==
    /\ LoopOver
    /\ Len(results) = 1
    /\ Length(disk[results[1].path].content) > MAX_FILE_SIZE
    /\ results[1].path # allFiles[1].path

\* the candidates before position i that were read as text, in rank order
TextBefore(i) ==
    SelectSeq(SubSeq(allFiles, 1, i - 1), LAMBDA a : ReadAsText(a.path))

\* C29: the budget leaves no hole in the result: every candidate ranked
\* before a returned one that can be read and holds no null byte is
\* returned too; the result is a prefix of the candidates read as text, in
\* rank order.
Theorem_C29 ==
    /\ [i \in 1..Len(results) |-> results[i].path]
          = [i \in 1..Len(TextBefore(idx)) |-> TextBefore(idx)[i].path]
    /\ \A i, j \in 1..Len(allFiles) :
          (i < j /\ allFiles[j].path \in ResultPaths /\ ReadAsText(allFiles[i].path))
              => allFiles[i].path \in ResultPaths

\* the loop stopped on the budget at the third candidate, after one
\* candidate was skipped and one accepted
Witness_C29 ==
    /\ Broke
    /\ idx = 3
    /\ Len(results) = 1
    /\ ~ReadAsText(allFiles[1].path)


(***************************************************************************)
(* Termination of findFiles.                                               *)
(***************************************************************************)
\* the files of the fixture that lie in directories
NestedFiles == {f \in FixtureFiles : Ancestors(f) # {} /\ f[1] # "n"}

\* the calls with at most two patterns
ShortCalls == {call \in FindCalls : Len(call.patterns) <= 2}

\* calls of findFiles on the trees made of the nested files
InitFindNested ==
    /\ tool = "findFiles"
    /\ rootKind \in {"dir", "missing"}
    /\ \E F \in SUBSET NestedFiles :
        /\ fsFiles = F
        /\ fsDirs = UNION {Ancestors(f) : f \in F}
        /\ \E u \in SUBSET (UNION {Ancestors(f) : f \in F} \cup {<<>>}) :
            /\ Cardinality(u) <= 1
            /\ unreadable = u
    /\ rootKind # "dir" => fsFiles = {} /\ unreadable = {}
    /\ depth = "standard"
    /\ \E call \in ShortCalls :
        /\ patterns = [isArray |-> TRUE, items |-> call.patterns]
        /\ ignore = call.ignore
        /\ maxDepth = call.maxDepth
    /\ InitRest
    /\ pc = "findFiles"

\* every continuation of an awaited fs call is run by the event loop: a step
\* of findFiles that can be taken is eventually taken
SpecFindFair == InitFindNested /\ [][NextFind]_vars /\ WF_vars(NextFind)

\* no pending call of walk is deeper than maxDepth + 1
NeverDeeper ==
    /\ Len(stack) <= maxDepth + 2
    /\ \A k \in 1..Len(stack) : stack[k].depth <= maxDepth + 1

\* a step of walk that lists a directory lists one not listed before in this call
ListsOnce ==
    (pc = "walk" /\ stack # <<>> /\ Top.state = "call" /\ Top.depth <= maxDepth
     /\ stack' # stack)
        => Top.dir \notin enumerated /\ enumerated' = enumerated \cup {Top.dir}

\* the n-th call, once it walks, returns
Returns(n) == (pc = "walk" /\ Len(returned) = n) ~> (Len(returned) = n + 1)

\* C30: findFiles terminates on every finite tree for every maxDepth >= 0: no
\* call of walk is deeper than maxDepth + 1, each directory is listed at most
\* once in a call, and every call that started to walk returns its result
Theorem_C30 ==
    /\ [] NeverDeeper
    /\ [][ListsOnce]_vars
    /\ Returns(0)
    /\ Returns(1)
    /\ <>[] (pc = "done")

\* both calls have returned, the second after it listed two directories and
\* cut the walk at maxDepth + 1
Witness_C30 ==
    /\ pc = "done"
    /\ Len(returned) = 2
    /\ unreadable = {}
    /\ Cardinality(enumerated) >= 2
    /\ \E d \in fsDirs : d \notin enumerated /\ DirSegments(d) = maxDepth

(***************************************************************************)
(* getFilePriority alone, on candidates of the profiles.                   *)
(***************************************************************************)
\* paths the patterns of the deep profile select
PriorityPaths ==
    { <<"p","a","c","k","a","g","e",".","j","s","o","n">>,
      <<"R","E","A","D","M","E",".","m","d">>,
      <<"r","e","a","d","m","e",".","m","d">>,
      <<"g","o",".","m","o","d">>,
      <<"b","u","i","l","d",".","g","r","a","d","l","e">>,
      <<"b","u","i","l","d",".","g","r","a","d","l","e",".","k","t","s">>,
      <<"o","p","e","n","a","p","i",".","y","a","m","l">>,
      <<"s","w","a","g","g","e","r",".","j","s","o","n">>,
      <<"a","p","i","-","s","p","e","c",".","y","m","l">>,
      <<"D","o","c","k","e","r","f","i","l","e">>,
      <<"D","o","c","k","e","r","f","i","l","e",".","p","r","o","d">>,
      <<"d","o","c","k","e","r","-","c","o","m","p","o","s","e",".","y","m","l">>,
      <<".","g","i","t","h","u","b","/","w","o","r","k","f","l","o","w","s","/","c","i",".","y","m","l">>,
      <<".","g","i","t","l","a","b","-","c","i",".","y","m","l">>,
      <<"J","e","n","k","i","n","s","f","i","l","e">>,
      <<"a","z","u","r","e","-","p","i","p","e","l","i","n","e","s",".","y","m","l">>,
      <<"t","e","r","r","a","f","o","r","m","/","m","a","i","n",".","t","f">>,
      <<"k","8","s","/","a","p","p","/","d","e","p","l","o","y",".","y","a","m","l">>,
      <<"h","e","l","m","/","c","h","a","r","t","/","v","a","l","u","e","s",".","y","a","m","l">>,
      <<"L","I","C","E","N","S","E">>,
      <<"M","a","k","e","f","i","l","e">>,
      <<"c","o","n","f","i","g","/","a","p","p",".","j","s","o","n">> }

\* calls of getFilePriority, as findAndReadFiles makes them for its matches
InitPriority ==
    /\ tool = "getFilePriority"
    /\ rootKind = "dir"
    /\ fsFiles = PriorityPaths
    /\ fsDirs = UNION {Ancestors(f) : f \in PriorityPaths}
    /\ unreadable = {}
    /\ depth = "deep"
    /\ patterns = [isArray |-> TRUE, items |-> getFilePatterns("deep")]
    /\ ignore = <<>>
    /\ maxDepth = DefaultMaxDepth
    /\ InitRest
    /\ pc = "getFilePriority"

\* the two candidates compared
PairSize == 2

\* allFiles.push({ path: match, priority: this.getFilePriority(match) })
GetFilePriorityCall ==
    /\ tool = "getFilePriority" /\ pc = "getFilePriority"
    /\ \E match \in fsFiles :
        allFiles' = Append(allFiles, [path |-> match, priority |-> getFilePriority(match)])
    /\ pc' = IF Len(allFiles) + 1 >= PairSize THEN "done" ELSE "getFilePriority"
    /\ UNCHANGED <<fsVars, findArgs, findVars, matches, returned, idx, results,
                   totalTokens, disk, diagnostics, response>>

NextPriority == GetFilePriorityCall

SpecPriority == InitPriority /\ [][NextPriority]_vars

\* the patterns of the profiles that select each class of the chain
ClassPatterns ==
    << {minimalPatterns[1]},                                        \* the root manifest
       {minimalPatterns[i] : i \in 16..19},                         \* README
       {minimalPatterns[i] : i \in {3, 5, 6, 7, 8, 9, 10, 11, 13, 15}},  \* other manifests
       {standardAdded[i] : i \in 11..18},                           \* API specifications
       {standardAdded[i] : i \in 1..4},                             \* container build
       {standardAdded[i] : i \in 6..10} \cup {deepAdded[i] : i \in 12..14},  \* CI pipelines
       {deepAdded[i] : i \in 1..8} >>                               \* infrastructure as code

ClassesOf(p) == {c \in 1..Len(ClassPatterns) : \E pattern \in ClassPatterns[c] : matchPattern(p, pattern)}

Ranked == pc = "done" /\ tool = "getFilePriority"

\* C25: of two candidates in different classes of the chain root manifest,
\* README, other manifests, API specifications, container build, CI pipelines,
\* infrastructure as code, the one in the earlier class has the strictly lower
\* rank number; a path in no class has rank 7
Claim_C25 ==
    Ranked =>
        /\ \A ca \in ClassesOf(allFiles[1].path) : \A cb \in ClassesOf(allFiles[2].path) :
            ca < cb => allFiles[1].priority < allFiles[2].priority
        /\ ClassesOf(allFiles[1].path) = {} => allFiles[1].priority = 7


(***************************************************************************)
(* collect_repo_files on one tree under each profile in turn.              *)
(***************************************************************************)
\* a file of each profile: of minimal, added by standard, added by deep
ProfileFiles ==
    { <<"L","I","C","E","N","S","E">>,
      <<"D","o","c","k","e","r","f","i","l","e">>,
      <<".","c","i","r","c","l","e","c","i","/","c","o","n","f","i","g",".","y","m","l">> }

\* the profiles, narrowest first
Profiles == <<"minimal", "standard", "deep">>

\* the first request, with the narrowest profile
InitProfiles ==
    /\ tool = "collect_repo_files"
    /\ rootKind \in {"dir", "file", "missing"}
    /\ InitTree(ProfileFiles)
    /\ rootKind # "dir" => fsFiles = {} /\ unreadable = {}
    /\ depth = Profiles[1]
    /\ patterns = [isArray |-> TRUE, items |-> <<>>]
    /\ ignore = <<>>
    /\ maxDepth = DefaultMaxDepth
    /\ InitRest
    /\ pc = "stat"

\* what a request answered, and what findAndReadFiles did for it
Answer ==
    [depth |-> depth,
     response |-> response,
     candidates |-> {allFiles[i].path : i \in 1..Len(allFiles)},
     files |-> ResultPaths,
     broke |-> Broke]

\* the handler returned; the next request asks for the next wider profile
NextProfile ==
    /\ tool = "collect_repo_files" /\ pc = "done" /\ suspended = NoRequest
    /\ Len(answers) < Len(Profiles)
    /\ answers' = Append(answers, Answer)
    /\ IF Len(answers) + 1 < Len(Profiles)
       THEN /\ depth' = Profiles[Len(answers) + 2]
            /\ pc' = "stat"
       ELSE /\ pc' = "end"
            /\ UNCHANGED depth
    /\ patterns' = [isArray |-> TRUE, items |-> <<>>]
    /\ ignore' = <<>>
    /\ normalizedPatterns' = <<>>
    /\ normalizedIgnore' = <<>>
    /\ stack' = <<>>
    /\ findResults' = <<>>
    /\ enumerated' = {}
    /\ matches' = <<>>
    /\ returned' = <<>>
    /\ allFiles' = <<>>
    /\ idx' = 1
    /\ results' = <<>>
    /\ totalTokens' = 0
    /\ diagnostics' = <<>>
    /\ response' = [kind |-> "none"]
    /\ UNCHANGED <<tool, rootKind, fsFiles, fsDirs, unreadable, maxDepth, disk, suspended>>

NextProfiles ==
    \/ CollectStat
    \/ FindFilesCall
    \/ WalkCall
    \/ WalkEntry
    \/ WalkReturn
    \/ FindFilesReturn
    \/ RankAndSort
    \/ ReadFile
    \/ ReadLoopEnd
    \/ Respond
    \/ NextProfile

SpecProfiles == InitProfiles /\ [][NextProfiles]_vars

\* C24 as stated: every file returned under a profile is returned under each
\* wider profile, on the same tree
Original_C24 ==
    \A i \in 1..Len(answers) : \A j \in (i + 1)..Len(answers) :
        answers[i].files \subseteq answers[j].files

\* C24, amended: on the same tree every candidate of a profile is a candidate
\* of each wider profile, and every file returned under a profile is returned
\* under each wider profile whose read loop was not left on the token budget
Theorem_C24 ==
    \A i \in 1..Len(answers) : \A j \in (i + 1)..Len(answers) :
        /\ answers[i].candidates \subseteq answers[j].candidates
        /\ ~answers[j].broke => answers[i].files \subseteq answers[j].files

\* the three profiles answered, none left on the budget, each wider one with a
\* file more
Witness_C24 ==
    /\ Len(answers) = 3
    /\ \A i \in 1..3 : ~answers[i].broke /\ Cardinality(answers[i].files) = i
    /\ answers[1].files \subseteq answers[2].files
    /\ answers[2].files \subseteq answers[3].files

(***************************************************************************)
(* Two calls of collect_repo_files in flight at once.                      *)
(***************************************************************************)
\* a file of the minimal profile and one the standard profile adds
PairFiles ==
    { <<"p","a","c","k","a","g","e",".","j","s","o","n">>,
      <<"D","o","c","k","e","r","f","i","l","e">> }

PairDepths == {"minimal", "standard"}

\* what one call of collectRepoFiles holds: its arguments, the locals of
\* findFiles and of findAndReadFiles, the lines it wrote, where it stands
Locals ==
    [depth |-> depth,
     patterns |-> patterns,
     ignore |-> ignore,
     maxDepth |-> maxDepth,
     normalizedPatterns |-> normalizedPatterns,
     normalizedIgnore |-> normalizedIgnore,
     stack |-> stack,
     findResults |-> findResults,
     enumerated |-> enumerated,
     matches |-> matches,
     returned |-> returned,
     allFiles |-> allFiles,
     idx |-> idx,
     results |-> results,
     totalTokens |-> totalTokens,
     diagnostics |-> diagnostics,
     response |-> response,
     pc |-> pc]

\* a call that has not started
Fresh(d) ==
    [depth |-> d,
     patterns |-> [isArray |-> TRUE, items |-> <<>>],
     ignore |-> <<>>,
     maxDepth |-> DefaultMaxDepth,
     normalizedPatterns |-> <<>>,
     normalizedIgnore |-> <<>>,
     stack |-> <<>>,
     findResults |-> <<>>,
     enumerated |-> {},
     matches |-> <<>>,
     returned |-> <<>>,
     allFiles |-> <<>>,
     idx |-> 1,
     results |-> <<>>,
     totalTokens |-> 0,
     diagnostics |-> <<>>,
     response |-> [kind |-> "none"],
     pc |-> "stat"]

\* faulty variant: totalTokens is one accumulator of the process
LoadSharedTotal(l) ==
    /\ depth' = l.depth
    /\ patterns' = l.patterns
    /\ ignore' = l.ignore
    /\ maxDepth' = l.maxDepth
    /\ normalizedPatterns' = l.normalizedPatterns
    /\ normalizedIgnore' = l.normalizedIgnore
    /\ stack' = l.stack
    /\ findResults' = l.findResults
    /\ enumerated' = l.enumerated
    /\ matches' = l.matches
    /\ returned' = l.returned
    /\ allFiles' = l.allFiles
    /\ idx' = l.idx
    /\ results' = l.results
    /\ diagnostics' = l.diagnostics
    /\ response' = l.response
    /\ pc' = l.pc
    /\ UNCHANGED totalTokens

\* the event loop resumes the call that holds l
Load(l) ==
    /\ depth' = l.depth
    /\ patterns' = l.patterns
    /\ ignore' = l.ignore
    /\ maxDepth' = l.maxDepth
    /\ normalizedPatterns' = l.normalizedPatterns
    /\ normalizedIgnore' = l.normalizedIgnore
    /\ stack' = l.stack
    /\ findResults' = l.findResults
    /\ enumerated' = l.enumerated
    /\ matches' = l.matches
    /\ returned' = l.returned
    /\ allFiles' = l.allFiles
    /\ idx' = l.idx
    /\ results' = l.results
    /\ totalTokens' = l.totalTokens
    /\ diagnostics' = l.diagnostics
    /\ response' = l.response
    /\ pc' = l.pc

\* a call that runs alone, first
InitPair ==
    /\ tool = "collect_repo_files"
    /\ rootKind \in {"dir", "missing"}
    /\ InitTree(PairFiles)
    /\ rootKind # "dir" => fsFiles = {} /\ unreadable = {}
    /\ depth \in PairDepths
    /\ patterns = [isArray |-> TRUE, items |-> <<>>]
    /\ ignore = <<>>
    /\ maxDepth = DefaultMaxDepth
    /\ InitRest
    /\ pc = "stat"

\* the call alone has returned; the same call and a second one arrive together
StartPair ==
    /\ tool = "collect_repo_files" /\ pc = "done"
    /\ answers = <<>> /\ suspended = NoRequest
    /\ answers' = <<Answer>>
    /\ Load(Fresh(depth))
    /\ \E d \in PairDepths : suspended' = Fresh(d)
    /\ UNCHANGED <<tool, rootKind, fsFiles, fsDirs, unreadable, disk>>

\* the running call waits on an await (fs.stat, fs.readdir, fs.readFile) or
\* has returned, and the event loop resumes the other call; a switch between
\* any two steps covers every order the awaits can complete in
Switch ==
    /\ tool = "collect_repo_files"
    /\ suspended # NoRequest /\ suspended.pc # "done"
    /\ suspended' = Locals
    /\ Load(suspended)
    /\ UNCHANGED <<tool, rootKind, fsFiles, fsDirs, unreadable, disk, answers>>

NextPair ==
    \/ CollectStat
    \/ FindFilesCall
    \/ WalkCall
    \/ WalkEntry
    \/ WalkReturn
    \/ FindFilesReturn
    \/ RankAndSort
    \/ ReadFile
    \/ ReadLoopEnd
    \/ Respond
    \/ StartPair
    \/ Switch

SpecPair == InitPair /\ [][NextPair]_vars

\* the two calls in flight
InFlight == IF suspended = NoRequest THEN {} ELSE {Locals, suspended}

\* a step leaves the locals of the call that waits alone, and a switch leaves
\* the locals of both calls as they are
OwnLocalsOnly ==
    (suspended # NoRequest /\ suspended' # NoRequest) =>
        \/ suspended' = suspended
        \/ suspended' = Locals /\ Locals' = suspended

\* a call in flight that has returned, with the arguments of the call that
\* ran alone, answered what that call answered
AnswersAsAlone ==
    \A r \in InFlight :
        (r.pc = "done" /\ r.depth = answers[1].depth) =>
            /\ r.response = answers[1].response
            /\ {r.allFiles[i].path : i \in 1..Len(r.allFiles)} = answers[1].candidates
            /\ r.totalTokens = SumOfCosts(r.results)

\* C27: two collection requests whose steps interleave in any order share no
\* mutable state: no step of one reads or writes the candidate list, the
\* result list or the token total of the other, and on an unchanged tree each
\* returns what it returns when it runs alone
Theorem_C27 == [] AnswersAsAlone /\ [][OwnLocalsOnly]_vars

\* the call with the arguments of the call alone has returned two files
\* while the other call stands in its read loop, one file accepted
Witness_C27 ==
    /\ suspended # NoRequest
    /\ pc = "done" /\ depth = answers[1].depth
    /\ Len(results) = 2 /\ response = answers[1].response
    /\ suspended.pc = "read" /\ Len(suspended.results) = 1
    /\ suspended.totalTokens > 0 /\ totalTokens > suspended.totalTokens
====
